---- MODULE Spec2Model ----
(***************************************************************************)
(* Decimal Equivalent Calculator (bagstac/DecimalConverter).               *)
(*                                                                         *)
(* The three converter tabs of src/decimal_convertor.py as a state         *)
(* machine: the Tk StringVars are the state, the user's edits, the Convert *)
(* callbacks and the reference-table row selections are the actions.       *)
(* Python's int, float and Fraction are modelled by what they compute:     *)
(* arbitrary-precision naturals, IEEE-754 binary64 with round-half-even,   *)
(* and exact rationals.  Texts are sequences of one-character strings.     *)
(***************************************************************************)
EXTENDS Integers, Sequences, FiniteSets, TLC

\* TRUE, after v has been computed.  Written as the guard of a CASE it fixes
\* the order of evaluation: an operand is computed before the operation that
\* uses it is entered, instead of at its first use deep inside it.
Eval(v) == v = v

\* The arithmetic and text library below is evaluated through one recursive
\* operator, Call, defined after the library: an operator X of the library
\* is Call("X", <<arguments>>), and X_def is what it computes.  Every use
\* of the library is then a use of Call, so TLC's statistics hold each
\* definition once and not once for every path of calls that reaches it.
RECURSIVE Call(_, _)

(***************************************************************************)
(* Python int: arbitrary-precision naturals, little-endian limbs below     *)
(* Base, no leading zero limb; <<>> is 0.                                  *)
(***************************************************************************)
LimbBits == 15
Base == 2 ^ LimbBits

Limb(a, i) == IF 1 <= i /\ i <= Len(a) THEN a[i] ELSE 0

\* the sequence f[1], ..., f[n], computed
Limbs(f, n) == SubSeq(f, 1, n)

BigNorm(a) == Call("BigNorm", <<a>>)
BigNorm_def(a) ==
  LET v == Limbs(a, Len(a))
      nz == {i \in 1..Len(v) : v[i] # 0}
  IN  IF nz = {} THEN <<>>
      ELSE SubSeq(v, 1, CHOOSE i \in nz : \A j \in (i + 1)..Len(v) : v[j] = 0)

BigOfNat(n) == Call("BigOfNat", <<n>>)
BigOfNat_def(n) ==
  BigNorm(<<n % Base, (n \div Base) % Base, n \div (Base * Base)>>)

\* only for values below 2^31
BigToNat(a) == Limb(a, 1) + Base * Limb(a, 2) + Base * Base * Limb(a, 3)

BigCmp(a, b) ==
  CASE Eval(a) /\ Eval(b) ->
    IF Len(a) < Len(b) THEN -1
    ELSE IF Len(a) > Len(b) THEN 1
    ELSE LET df == {i \in 1..Len(a) : a[i] # b[i]}
         IN  IF df = {} THEN 0
             ELSE LET top == CHOOSE i \in df : \A j \in (i + 1)..Len(a) : a[j] = b[j]
                  IN  IF a[top] < b[top] THEN -1 ELSE 1

BigLess(a, b) == BigCmp(a, b) < 0
BigLeq(a, b) == BigCmp(a, b) <= 0

\* Carry chain by parallel prefix.  v[i] says what limb i does with a carry
\* (or borrow) coming in: 0 stops it, 1 passes it on, 2 sends one out
\* whatever comes in.  After the scan, v[i] = 2 exactly when a carry leaves
\* limb i.  Each round doubles the distance d already accounted for.
CarryScan(v, d) == Call("CarryScan", <<v, d>>)
CarryScan_def(v, d) ==
  CASE Eval(v) ->
    IF d >= Len(v) THEN v
    ELSE CarryScan(Limbs([i \in 1..Len(v) |->
                            IF v[i] = 1 THEN (IF i > d THEN v[i - d] ELSE 0) ELSE v[i]],
                         Len(v)),
                   2 * d)

BigAdd(a, b) == Call("BigAdd", <<a, b>>)
BigAdd_def(a, b) ==
  CASE Eval(a) /\ Eval(b) ->
    LET n == (IF Len(a) < Len(b) THEN Len(b) ELSE Len(a)) + 1
        s == Limbs([i \in 1..n |-> Limb(a, i) + Limb(b, i)], n)
        c == CarryScan(Limbs([i \in 1..n |->
                                IF s[i] >= Base THEN 2
                                ELSE IF s[i] = Base - 1 THEN 1 ELSE 0], n), 1)
    IN  CASE Eval(s) /\ Eval(c) ->
          BigNorm([i \in 1..n |->
                     (s[i] + (IF i > 1 /\ c[i - 1] = 2 THEN 1 ELSE 0)) % Base])

\* a - b for a >= b
BigSub(a, b) == Call("BigSub", <<a, b>>)
BigSub_def(a, b) ==
  CASE Eval(a) /\ Eval(b) ->
    LET n == Len(a)
        d == Limbs([i \in 1..n |-> a[i] - Limb(b, i)], n)
        w == CarryScan(Limbs([i \in 1..n |->
                                IF d[i] < 0 THEN 2
                                ELSE IF d[i] = 0 THEN 1 ELSE 0], n), 1)
    IN  CASE Eval(d) /\ Eval(w) ->
          BigNorm([i \in 1..n |->
                     (d[i] - (IF i > 1 /\ w[i - 1] = 2 THEN 1 ELSE 0) + Base) % Base])

BigAbsDiff(a, b) == Call("BigAbsDiff", <<a, b>>)
BigAbsDiff_def(a, b) == IF BigLess(a, b) THEN BigSub(b, a) ELSE BigSub(a, b)

\* a * k for 0 <= k <= Base
BigMulSmall(a, k) == Call("BigMulSmall", <<a, k>>)
BigMulSmall_def(a, k) ==
  CASE Eval(a) /\ Eval(k) ->
    BigAdd(Limbs([i \in 1..Len(a) |-> (a[i] * k) % Base], Len(a)),
           Limbs([i \in 1..(Len(a) + 1) |->
                    IF i = 1 THEN 0 ELSE (a[i - 1] * k) \div Base], Len(a) + 1))

BigShiftLimbs(a, n) == IF a = <<>> THEN <<>> ELSE [i \in 1..n |-> 0] \o a

\* a * (limbs lo..hi of b, in place)
BigMulRange(a, b, lo, hi) == Call("BigMulRange", <<a, b, lo, hi>>)
BigMulRange_def(a, b, lo, hi) ==
  IF lo > hi THEN <<>>
  ELSE IF lo = hi THEN BigShiftLimbs(BigMulSmall(a, b[lo]), lo - 1)
  ELSE LET mid == (lo + hi) \div 2
           l == BigMulRange(a, b, lo, mid)
           h == BigMulRange(a, b, mid + 1, hi)
       IN  CASE Eval(l) /\ Eval(h) -> BigAdd(l, h)

BigMul(a, b) == Call("BigMul", <<a, b>>)
BigMul_def(a, b) == CASE Eval(a) /\ Eval(b) -> BigMulRange(a, b, 1, Len(b))

BigShl(a, s) == Call("BigShl", <<a, s>>)
BigShl_def(a, s) ==
  CASE Eval(a) /\ Eval(s) ->
    LET w == s \div LimbBits
        p == 2 ^ (s % LimbBits)
    IN  BigNorm([i \in 1..(Len(a) + w + 1) |->
                   ((Limb(a, i - w) * p) % Base) + ((Limb(a, i - w - 1) * p) \div Base)])

BigShr(a, s) == Call("BigShr", <<a, s>>)
BigShr_def(a, s) ==
  CASE Eval(a) /\ Eval(s) ->
    LET w == s \div LimbBits
        r == s % LimbBits
    IN  IF w >= Len(a) THEN <<>>
        ELSE BigNorm([i \in 1..(Len(a) - w) |->
                        (Limb(a, i + w) \div (2 ^ r))
                        + ((Limb(a, i + w + 1) % (2 ^ r)) * (2 ^ (LimbBits - r)))])

BitLenNat(n) == CHOOSE k \in 0..(2 * LimbBits + 1) : n < 2 ^ k /\ (k = 0 \/ n >= 2 ^ (k - 1))

BigBitLen(a) ==
  IF a = <<>> THEN 0 ELSE LimbBits * (Len(a) - 1) + BitLenNat(a[Len(a)])

BigIsOdd(a) == a # <<>> /\ a[1] % 2 = 1

BigPow2(s) == Call("BigPow2", <<s>>)
BigPow2_def(s) == BigShl(<<1>>, s)

\* One step of long division by b (top limb of b at least Base / 2): the
\* running remainder cur < b * Base.  The quotient limb is estimated from the
\* two top limbs of cur and is at most 2 too large.
BigDivStep(cur, b) == Call("BigDivStep", <<cur, b>>)
BigDivStep_def(cur, b) ==
  CASE Eval(cur) ->
    LET m == Len(b)
        est0 == (Limb(cur, m + 1) * Base + Limb(cur, m)) \div b[m]
        est == IF est0 > Base - 1 THEN Base - 1 ELSE est0
        q == IF BigLeq(BigMulSmall(b, est), cur) THEN est
             ELSE IF BigLeq(BigMulSmall(b, est - 1), cur) THEN est - 1
             ELSE est - 2
    IN  CASE Eval(q) -> <<q, BigSub(cur, BigMulSmall(b, q))>>

\* long division bringing down limbs hi..lo of a onto the remainder rem < b:
\* <<quotient limbs lo..hi, remainder>>
BigDivRange(a, b, hi, lo, rem) == Call("BigDivRange", <<a, b, hi, lo, rem>>)
BigDivRange_def(a, b, hi, lo, rem) ==
  IF hi < lo THEN <<<<>>, rem>>
  ELSE IF hi = lo
  THEN LET st == BigDivStep(BigNorm(<<a[hi]>> \o rem), b)
       IN  <<<<st[1]>>, st[2]>>
  ELSE LET mid == (hi + lo) \div 2
           top == BigDivRange(a, b, hi, mid + 1, rem)
       IN  CASE Eval(top) ->
             LET bot == BigDivRange(a, b, mid, lo, top[2])
             IN  CASE Eval(bot) -> <<bot[1] \o top[1], bot[2]>>

\* <<a \div b, a % b>> for b > 0
BigDivMod(a, b) == Call("BigDivMod", <<a, b>>)
BigDivMod_def(a, b) ==
  CASE Eval(a) /\ Eval(b) ->
    IF BigLess(a, b) THEN <<<<>>, a>>
    ELSE LET s == LimbBits - BitLenNat(b[Len(b)])
             an == BigShl(a, s)
             bn == BigShl(b, s)
             k == Len(an) - Len(bn) + 1
         IN  CASE Eval(an) /\ Eval(bn) ->
               LET r == BigDivRange(an, bn, k, 1, SubSeq(an, k + 1, Len(an)))
               IN  CASE Eval(r) -> <<BigNorm(r[1]), BigShr(r[2], s)>>

BigGcd(a, b) == Call("BigGcd", <<a, b>>)
BigGcd_def(a, b) ==
  CASE Eval(a) /\ Eval(b) ->
    IF b = <<>> THEN a ELSE BigGcd(b, BigDivMod(a, b)[2])

\* 10^k by repeated squaring
BigPow10(k) == Call("BigPow10", <<k>>)
BigPow10_def(k) ==
  IF k = 0 THEN <<1>>
  ELSE LET h == BigPow10(k \div 2)
       IN  CASE Eval(h) ->
             LET sq == BigMul(h, h)
             IN  IF k % 2 = 0 THEN sq ELSE BigMulSmall(sq, 10)

(***************************************************************************)
(* Texts: sequences of one-character strings.  str.strip, str.split and    *)
(* the number grammars of int(), float() and Fraction() over ASCII.        *)
(***************************************************************************)
Digits == <<"0", "1", "2", "3", "4", "5", "6", "7", "8", "9">>
DigitSet == {Digits[d] : d \in 1..10}
IsDigit(c) == c \in DigitSet
DigitVal(c) == (CHOOSE d \in 1..10 : Digits[d] = c) - 1
Whitespace == {" ", "\t"}

MinOf(S) == CHOOSE m \in S : \A j \in S : m <= j
MaxOf(S) == CHOOSE m \in S : \A j \in S : j <= m

strip(t) ==
  LET keep == {i \in 1..Len(t) : t[i] \notin Whitespace}
  IN  IF keep = {} THEN <<>> ELSE SubSeq(t, MinOf(keep), MaxOf(keep))

\* str.split(): the maximal runs of non-whitespace characters, in order
split(t) == Call("split", <<t>>)
split_def(t) ==
  LET starts == {i \in 1..Len(t) :
                   t[i] \notin Whitespace /\ (i = 1 \/ t[i - 1] \in Whitespace)}
      EndOf(i) == MinOf({j \in i..Len(t) :
                   j = Len(t) \/ t[j + 1] \in Whitespace})
      Nth(k) == CHOOSE i \in starts : Cardinality({j \in starts : j < i}) = k - 1
  IN  [k \in 1..Cardinality(starts) |-> SubSeq(t, Nth(k), EndOf(Nth(k)))]

\* digit (["_"] digit)*
IsDigitPart(s) ==
  /\ Len(s) > 0
  /\ \A i \in 1..Len(s) : IsDigit(s[i]) \/ s[i] = "_"
  /\ IsDigit(s[1]) /\ IsDigit(s[Len(s)])
  /\ \A i \in 1..(Len(s) - 1) : ~(s[i] = "_" /\ s[i + 1] = "_")

DropUnderscores(s) == SelectSeq(s, LAMBDA c : c # "_")

\* the value of a sequence of digits
DecimalToBig(ds) == Call("DecimalToBig", <<ds>>)
DecimalToBig_def(ds) ==
  IF Len(ds) = 0 THEN <<>>
  ELSE IF Len(ds) = 1 THEN BigOfNat(DigitVal(ds[1]))
  ELSE LET mid == Len(ds) \div 2
           hi == DecimalToBig(SubSeq(ds, 1, mid))
           lo == DecimalToBig(SubSeq(ds, mid + 1, Len(ds)))
           sh == BigPow10(Len(ds) - mid)
       IN  CASE Eval(hi) /\ Eval(lo) /\ Eval(sh) -> BigAdd(BigMul(sh, hi), lo)

\* length of the longest run of characters of `allowed` from index i
RunLen(s, i, allowed) ==
  CHOOSE n \in 0..(Len(s) - i + 1) :
    /\ \A k \in i..(i + n - 1) : s[k] \in allowed
    /\ i + n > Len(s) \/ s[i + n] \notin allowed

HasSign(s) == Len(s) > 0 /\ s[1] \in {"+", "-"}
Unsigned(s) == IF HasSign(s) THEN Tail(s) ELSE s
IsNegative(s) == Len(s) > 0 /\ s[1] = "-"

\* [digitpart] ["." [digitpart]] [("e"|"E") ["+"|"-"] digitpart], with a digit
\* before or after the point: the decimal grammar float() and Fraction() share.
\* The value is num / den.  The steps of the parse, last first.
DigitRun == DigitSet \cup {"_"}
NotDecimal == [ok |-> FALSE, num |-> <<>>, den |-> <<1>>]

\* mant / scale, times or divided by p10
DecimalValue(mant, scale, p10, expNeg) == Call("DecimalValue", <<mant, scale, p10, expNeg>>)
DecimalValue_def(mant, scale, p10, expNeg) ==
  CASE Eval(mant) /\ Eval(scale) /\ Eval(p10) ->
    IF expNeg
    THEN [ok |-> TRUE, num |-> mant, den |-> BigMul(scale, p10)]
    ELSE [ok |-> TRUE, num |-> BigMul(mant, p10), den |-> scale]

DecimalMantissa(id, fv, scale, ex, expNeg) == Call("DecimalMantissa", <<id, fv, scale, ex, expNeg>>)
DecimalMantissa_def(id, fv, scale, ex, expNeg) ==
  CASE Eval(id) /\ Eval(fv) /\ Eval(scale) ->
    DecimalValue(BigAdd(BigMul(id, scale), fv), scale, BigPow10(ex), expNeg)

\* id, fd, ed: the digits before the point, after it, and of the exponent
DecimalOfDigits(id, fd, ed, expNeg) == Call("DecimalOfDigits", <<id, fd, ed, expNeg>>)
DecimalOfDigits_def(id, fd, ed, expNeg) ==
  DecimalMantissa(DecimalToBig(id), DecimalToBig(fd), BigPow10(Len(fd)),
                  BigToNat(DecimalToBig(ed)), expNeg)

\* ip, fp, ep: the three digit parts as written; ended when the text ends
\* after the fraction part
DecimalOfParts(ip, fp, ep, hasExp, expNeg, ended) == Call("DecimalOfParts", <<ip, fp, ep, hasExp, expNeg, ended>>)
DecimalOfParts_def(ip, fp, ep, hasExp, expNeg, ended) ==
  IF /\ ip = <<>> \/ IsDigitPart(ip)
     /\ fp = <<>> \/ IsDigitPart(fp)
     /\ ip # <<>> \/ fp # <<>>
     /\ IF hasExp THEN IsDigitPart(ep) ELSE ended
  THEN DecimalOfDigits(DropUnderscores(ip), DropUnderscores(fp),
                       DropUnderscores(ep), expNeg)
  ELSE NotDecimal

\* p3 is the index after the fraction part
DecimalExponent(u, ip, fp, p3, hasExp, expSigned) == Call("DecimalExponent", <<u, ip, fp, p3, hasExp, expSigned>>)
DecimalExponent_def(u, ip, fp, p3, hasExp, expSigned) ==
  DecimalOfParts(ip, fp,
                 IF hasExp
                 THEN SubSeq(u, p3 + 1 + (IF expSigned THEN 1 ELSE 0), Len(u))
                 ELSE <<>>,
                 hasExp, expSigned /\ u[p3 + 1] = "-", p3 = Len(u) + 1)

DecimalAfterFraction(u, ip, fp, p3, hasExp) == Call("DecimalAfterFraction", <<u, ip, fp, p3, hasExp>>)
DecimalAfterFraction_def(u, ip, fp, p3, hasExp) ==
  DecimalExponent(u, ip, fp, p3, hasExp,
                  hasExp /\ p3 + 1 <= Len(u) /\ u[p3 + 1] \in {"+", "-"})

\* n1 and n2 are the lengths of the runs before and after the point
DecimalFraction(u, n1, hasDot, n2, p3) == Call("DecimalFraction", <<u, n1, hasDot, n2, p3>>)
DecimalFraction_def(u, n1, hasDot, n2, p3) ==
  DecimalAfterFraction(u, SubSeq(u, 1, n1), SubSeq(u, n1 + 2, n1 + 1 + n2), p3,
                       p3 <= Len(u) /\ u[p3] \in {"e", "E"})

DecimalPoint(u, n1, hasDot, n2) == Call("DecimalPoint", <<u, n1, hasDot, n2>>)
DecimalPoint_def(u, n1, hasDot, n2) ==
  DecimalFraction(u, n1, hasDot, n2, n1 + 1 + (IF hasDot THEN 1 + n2 ELSE 0))

DecimalInteger(u, n1, hasDot) == Call("DecimalInteger", <<u, n1, hasDot>>)
DecimalInteger_def(u, n1, hasDot) ==
  DecimalPoint(u, n1, hasDot, IF hasDot THEN RunLen(u, n1 + 2, DigitRun) ELSE 0)

ParseInteger(u, n1) == Call("ParseInteger", <<u, n1>>)
ParseInteger_def(u, n1) == DecimalInteger(u, n1, n1 + 1 <= Len(u) /\ u[n1 + 1] = ".")

ParseDecimal(u) == Call("ParseDecimal", <<u>>)
ParseDecimal_def(u) == ParseInteger(u, RunLen(u, 1, DigitRun))

(***************************************************************************)
(* Python int(text): [exc, neg, mag].                                      *)
(***************************************************************************)
int_of_str(t) == Call("int_of_str", <<t>>)
int_of_str_def(t) ==
  LET s == strip(t)
      u == Unsigned(s)
  IN  IF IsDigitPart(u)
      THEN [exc |-> "", neg |-> IsNegative(s) /\ DecimalToBig(DropUnderscores(u)) # <<>>,
            mag |-> DecimalToBig(DropUnderscores(u))]
      ELSE [exc |-> "ValueError", neg |-> FALSE, mag |-> <<>>]

(***************************************************************************)
(* fractions.Fraction: [exc, neg, num, den], the value (-1)^neg * num/den  *)
(* in lowest terms, num and den naturals, den > 0.                         *)
(* Fraction(text) follows the class's _RATIONAL_FORMAT: sign, then         *)
(* num "/" denom, or a decimal with optional exponent.                     *)
(***************************************************************************)
Frac(neg, num, den) == Call("Frac", <<neg, num, den>>)
Frac_def(neg, num, den) ==
  CASE Eval(num) /\ Eval(den) ->
    LET g == BigGcd(num, den)
    IN  CASE Eval(g) ->
          [exc |-> "", neg |-> neg /\ num # <<>>,
           num |-> BigDivMod(num, g)[1], den |-> BigDivMod(den, g)[1]]
FracError(e) == [exc |-> e, neg |-> FALSE, num |-> <<>>, den |-> <<1>>]

Fraction_of_str(t) == Call("Fraction_of_str", <<t>>)
Fraction_of_str_def(t) ==
  LET s == strip(t)
      u == Unsigned(s)
      slashes == {i \in 1..Len(u) : u[i] = "/"}
  IN  IF slashes # {}
      THEN LET i == MinOf(slashes)
               n == SubSeq(u, 1, i - 1)
               d == SubSeq(u, i + 1, Len(u))
           IN  IF ~(IsDigitPart(n) /\ IsDigitPart(d)) THEN FracError("ValueError")
               ELSE IF DecimalToBig(DropUnderscores(d)) = <<>>
               THEN FracError("ZeroDivisionError")
               ELSE Frac(IsNegative(s), DecimalToBig(DropUnderscores(n)),
                         DecimalToBig(DropUnderscores(d)))
      ELSE LET p == ParseDecimal(u)
           IN  CASE Eval(p) ->
                 IF p.ok THEN Frac(IsNegative(s), p.num, p.den)
                 ELSE FracError("ValueError")

(***************************************************************************)
(* Python float: IEEE-754 binary64.  A finite value is (-1)^neg * m * 2^e  *)
(* with m < 2^53 and e >= -1074 (m of exactly 53 bits unless e = -1074);   *)
(* zero is m = <<>>, e = 0.  Results are rounded to nearest, ties to even. *)
(***************************************************************************)
FloatFinite(neg, m, e) == [cls |-> "finite", neg |-> neg, m |-> m, e |-> e]
FloatZero(neg) == FloatFinite(neg, <<>>, 0)
FloatInf(neg) == [cls |-> "inf", neg |-> neg, m |-> <<>>, e |-> 0]
FloatNaN == [cls |-> "nan", neg |-> FALSE, m |-> <<>>, e |-> 0]

\* The binary64 nearest to N / D (D > 0), as [over, m, e]; over when the
\* rounded value is beyond the largest finite double.  The steps, last first.
DoubleZero == [over |-> FALSE, m |-> <<>>, e |-> 0]
DoubleOver == [over |-> TRUE, m |-> <<>>, e |-> 0]

\* m * 2^e, m of at most 53 bits
DoubleOf(m, e) ==
  CASE Eval(m) ->
    IF m = <<>> THEN DoubleZero
    ELSE IF e + BigBitLen(m) > 1024 THEN DoubleOver
    ELSE [over |-> FALSE, m |-> m, e |-> e]

\* rounding up may have carried m to 2^53
DoubleCarry(m, e) == Call("DoubleCarry", <<m, e>>)
DoubleCarry_def(m, e) ==
  CASE Eval(m) ->
    IF BigBitLen(m) > 53 THEN DoubleOf(BigShr(m, 1), e + 1) ELSE DoubleOf(m, e)

\* q + r/den to nearest, ties to even; c compares 2r with den
DoubleRound(q, c, e) == Call("DoubleRound", <<q, c, e>>)
DoubleRound_def(q, c, e) ==
  CASE Eval(q) /\ Eval(c) ->
    DoubleCarry(IF c > 0 \/ (c = 0 /\ BigIsOdd(q)) THEN BigAdd(q, <<1>>) ELSE q, e)

DoubleQuotient(qr, den, e) == Call("DoubleQuotient", <<qr, den, e>>)
DoubleQuotient_def(qr, den, e) ==
  CASE Eval(qr) ->
    DoubleRound(qr[1], BigCmp(BigAdd(qr[2], qr[2]), den), e)

\* num / den = N / D / 2^e
DoubleScaled(num, den, e) == Call("DoubleScaled", <<num, den, e>>)
DoubleScaled_def(num, den, e) ==
  CASE Eval(num) /\ Eval(den) -> DoubleQuotient(BigDivMod(num, den), den, e)

\* 2^top <= N / D < 2^(top + 1): the exponent of the last place is top - 52,
\* and -1074 for a subnormal
DoubleTop(N, D, top) == Call("DoubleTop", <<N, D, top>>)
DoubleTop_def(N, D, top) ==
  CASE Eval(top) ->
    IF top - 52 < -1074
    THEN DoubleScaled(BigShl(N, 1074), D, -1074)
    ELSE IF top - 52 < 0
    THEN DoubleScaled(BigShl(N, 52 - top), D, top - 52)
    ELSE DoubleScaled(N, BigShl(D, top - 52), top - 52)

\* bl is the difference of the bit lengths of N and D
DoubleBits(N, D, bl) == Call("DoubleBits", <<N, D, bl>>)
DoubleBits_def(N, D, bl) ==
  IF N = <<>> \/ bl <= -1076 THEN DoubleZero
  ELSE IF bl >= 1026 THEN DoubleOver
  ELSE IF bl >= 0
  THEN DoubleTop(N, D, IF BigLeq(BigShl(D, bl), N) THEN bl ELSE bl - 1)
  ELSE DoubleTop(N, D, IF BigLeq(D, BigShl(N, -bl)) THEN bl ELSE bl - 1)

RoundToDouble(N, D) == Call("RoundToDouble", <<N, D>>)
RoundToDouble_def(N, D) ==
  CASE Eval(N) /\ Eval(D) -> DoubleBits(N, D, BigBitLen(N) - BigBitLen(D))

\* float(text): [exc, val]
float_of_str(t) == Call("float_of_str", <<t>>)
float_of_str_def(t) ==
  LET s == strip(t)
      u == Unsigned(s)
      lower == [i \in 1..Len(u) |->
                  CASE u[i] = "I" -> "i" [] u[i] = "N" -> "n" [] u[i] = "F" -> "f"
                    [] u[i] = "T" -> "t" [] u[i] = "Y" -> "y" [] u[i] = "A" -> "a"
                    [] OTHER -> u[i]]
      neg == IsNegative(s)
  IN  IF lower \in {<<"i", "n", "f">>, <<"i", "n", "f", "i", "n", "i", "t", "y">>}
      THEN [exc |-> "", val |-> FloatInf(neg)]
      ELSE IF lower = <<"n", "a", "n">> THEN [exc |-> "", val |-> FloatNaN]
      ELSE LET p == ParseDecimal(u)
               r == RoundToDouble(p.num, p.den)
           IN  CASE Eval(p) ->
                 IF ~p.ok THEN [exc |-> "ValueError", val |-> FloatNaN]
                 ELSE CASE Eval(r) ->
                        IF r.over THEN [exc |-> "", val |-> FloatInf(neg)]
                        ELSE [exc |-> "", val |-> FloatFinite(neg, r.m, r.e)]

\* float(Fraction), the correctly rounded numerator / denominator: [exc, val]
float_of_Fraction(f) == Call("float_of_Fraction", <<f>>)
float_of_Fraction_def(f) ==
  CASE Eval(f) ->
    LET r == RoundToDouble(f.num, f.den)
    IN  CASE Eval(r) ->
          IF r.over THEN [exc |-> "OverflowError", val |-> FloatNaN]
          ELSE [exc |-> "", val |-> FloatFinite(f.neg, r.m, r.e)]

\* x < 0
float_lt_zero(x) ==
  CASE x.cls = "nan" -> FALSE
    [] x.cls = "inf" -> x.neg
    [] OTHER -> x.neg /\ x.m # <<>>

\* x * y
float_mul(x, y) == Call("float_mul", <<x, y>>)
float_mul_def(x, y) ==
  LET neg == x.neg # y.neg
      e == x.e + y.e
      m == BigMul(x.m, y.m)
      r == IF e >= 0 THEN RoundToDouble(BigShl(m, e), <<1>>)
           ELSE RoundToDouble(m, BigPow2(-e))
  IN  IF ~(Eval(x) /\ Eval(y)) THEN FloatNaN
      ELSE IF x.cls = "nan" \/ y.cls = "nan" THEN FloatNaN
      ELSE IF x.cls = "inf" \/ y.cls = "inf"
      THEN IF (x.cls = "finite" /\ x.m = <<>>) \/ (y.cls = "finite" /\ y.m = <<>>)
           THEN FloatNaN ELSE FloatInf(neg)
      ELSE IF r.over THEN FloatInf(neg)
      ELSE FloatFinite(neg, r.m, r.e)

\* x / y for a finite non-zero y
float_div(x, y) == Call("float_div", <<x, y>>)
float_div_def(x, y) ==
  LET neg == x.neg # y.neg
      r == IF x.e >= y.e THEN RoundToDouble(BigShl(x.m, x.e - y.e), y.m)
           ELSE RoundToDouble(x.m, BigShl(y.m, y.e - x.e))
  IN  IF ~(Eval(x) /\ Eval(y)) THEN FloatNaN
      ELSE IF x.cls = "nan" THEN FloatNaN
      ELSE IF x.cls = "inf" THEN FloatInf(neg)
      ELSE IF r.over THEN FloatInf(neg)
      ELSE FloatFinite(neg, r.m, r.e)

\* the nd decimal digits of a < 10^nd, most significant first
DecimalDigits(a, nd) == Call("DecimalDigits", <<a, nd>>)
DecimalDigits_def(a, nd) ==
  IF nd = 1 THEN <<Digits[BigToNat(a) + 1]>>
  ELSE LET h == nd \div 2
           qr == BigDivMod(a, BigPow10(h))
       IN  CASE Eval(qr) ->
             LET hd == DecimalDigits(qr[1], nd - h)
                 tl == DecimalDigits(qr[2], h)
             IN  CASE Eval(hd) /\ Eval(tl) -> hd \o tl

\* str(int) of a natural: its decimal digits without leading zeros
BigToDecimal(a) == Call("BigToDecimal", <<a>>)
BigToDecimal_def(a) ==
  LET ds == DecimalDigits(a, (BigBitLen(a) * 31) \div 100 + 2)
      nz == {i \in 1..Len(ds) : ds[i] # "0"}
  IN  IF nz = {} THEN <<"0">> ELSE SubSeq(ds, MinOf(nz), Len(ds))

\* f"{x:.<prec>f}": |x| * 10^prec rounded to an integer, ties to even, written
\* with the point prec places from the end.  The steps, last first.
FixedPoint(pad, prec) ==
  SubSeq(pad, 1, Len(pad) - prec)
    \o (IF prec > 0 THEN <<".">> \o SubSeq(pad, Len(pad) - prec + 1, Len(pad))
        ELSE <<>>)

\* ds are the digits of the rounded integer
FixedDigits(ds, prec) ==
  CASE Eval(ds) ->
    IF Len(ds) < prec + 1
    THEN FixedPoint([i \in 1..(prec + 1 - Len(ds)) |-> "0"] \o ds, prec)
    ELSE FixedPoint(ds, prec)

\* q0 + r0 / 2^k to nearest; c compares 2 * r0 with 2^k
FixedRound(q0, c, prec) == Call("FixedRound", <<q0, c, prec>>)
FixedRound_def(q0, c, prec) ==
  CASE Eval(q0) /\ Eval(c) ->
    FixedDigits(BigToDecimal(IF c > 0 \/ (c = 0 /\ BigIsOdd(q0))
                             THEN BigAdd(q0, <<1>>) ELSE q0), prec)

FixedRemainder(q0, r0, k, prec) == Call("FixedRemainder", <<q0, r0, k, prec>>)
FixedRemainder_def(q0, r0, k, prec) ==
  CASE Eval(r0) -> FixedRound(q0, BigCmp(BigAdd(r0, r0), BigPow2(k)), prec)

FixedQuotient(scaled, q0, k, prec) == Call("FixedQuotient", <<scaled, q0, k, prec>>)
FixedQuotient_def(scaled, q0, k, prec) ==
  CASE Eval(q0) -> FixedRemainder(q0, BigSub(scaled, BigShl(q0, k)), k, prec)

\* scaled * 2^e
FixedScaled(scaled, e, prec) == Call("FixedScaled", <<scaled, e, prec>>)
FixedScaled_def(scaled, e, prec) ==
  CASE Eval(scaled) ->
    IF e >= 0 THEN FixedDigits(BigToDecimal(BigShl(scaled, e)), prec)
    ELSE FixedQuotient(scaled, BigShr(scaled, -e), -e, prec)

format_f(x, prec) == Call("format_f", <<x, prec>>)
format_f_def(x, prec) ==
  CASE x.cls = "nan" -> <<"n", "a", "n">>
    [] x.cls = "inf" -> (IF x.neg THEN <<"-">> ELSE <<>>) \o <<"i", "n", "f">>
    [] OTHER -> (IF x.neg THEN <<"-">> ELSE <<>>)
                  \o FixedScaled(BigMul(x.m, BigPow10(prec)), x.e, prec)

(***************************************************************************)
(* Fraction(float), Fraction.limit_denominator, int(Fraction),             *)
(* Fraction - int and str(Fraction), as the mm handler uses them (on a     *)
(* value that is not negative).                                            *)
(***************************************************************************)
\* number of trailing zero bits of m # 0
TrailingZeros(m) ==
  LET j == CHOOSE i \in 1..Len(m) : m[i] # 0 /\ \A k \in 1..(i - 1) : m[k] = 0
      t == CHOOSE b \in 0..(LimbBits - 1) :
             m[j] % (2 ^ (b + 1)) # 0 /\ m[j] % (2 ^ b) = 0
  IN  LimbBits * (j - 1) + t

\* Fraction(x): float.as_integer_ratio, exact
Fraction_of_float(x) == Call("Fraction_of_float", <<x>>)
Fraction_of_float_def(x) ==
  CASE x.cls = "inf" -> FracError("OverflowError")
    [] x.cls = "nan" -> FracError("ValueError")
    [] x.m = <<>> -> [exc |-> "", neg |-> FALSE, num |-> <<>>, den |-> <<1>>]
    [] OTHER ->
         IF x.e >= 0
         THEN [exc |-> "", neg |-> x.neg, num |-> BigShl(x.m, x.e), den |-> <<1>>]
         ELSE LET tz == TrailingZeros(x.m)
                  k == IF tz < -x.e THEN tz ELSE -x.e
              IN  [exc |-> "", neg |-> x.neg,
                   num |-> BigShr(x.m, k), den |-> BigPow2(-x.e - k)]

\* the while-loop of limit_denominator: the convergents p1/q1 of n/d until
\* the next denominator q0 + a*q1 would exceed maxd.  When q1 > 0 and the
\* quotient a = n \div d has more bits than maxd it is not computed: then
\* q0 + a*q1 > maxd.
LimitLoop(p0, q0, p1, q1, n, d, maxd) == Call("LimitLoop", <<p0, q0, p1, q1, n, d, maxd>>)
LimitLoop_def(p0, q0, p1, q1, n, d, maxd) ==
  LET far == q1 # <<>> /\ BigBitLen(n) - BigBitLen(d) - 1 > BigBitLen(maxd)
      a == BigDivMod(n, d)[1]
      q2 == BigAdd(q0, BigMul(a, q1))
  IN  IF far THEN [p0 |-> p0, q0 |-> q0, p1 |-> p1, q1 |-> q1]
      ELSE CASE Eval(a) /\ Eval(q2) ->
             IF BigLess(maxd, q2)
             THEN [p0 |-> p0, q0 |-> q0, p1 |-> p1, q1 |-> q1]
             ELSE LET p2 == BigAdd(p0, BigMul(a, p1))
                      d2 == BigSub(n, BigMul(a, d))
                  IN  CASE Eval(p2) /\ Eval(d2) ->
                        LimitLoop(p1, q1, p2, q2, d, d2, maxd)

\* |a/b - n/d| <= |c/e - n/d|
CloserOrEqual(a, b, c, e, n, d) == Call("CloserOrEqual", <<a, b, c, e, n, d>>)
CloserOrEqual_def(a, b, c, e, n, d) ==
  LET ad == BigMul(a, d)
      nb == BigMul(n, b)
      cd == BigMul(c, d)
      ne == BigMul(n, e)
      l == BigMul(BigAbsDiff(ad, nb), e)
      r == BigMul(BigAbsDiff(cd, ne), b)
  IN  CASE Eval(ad) /\ Eval(nb) /\ Eval(cd) /\ Eval(ne) /\ Eval(l) /\ Eval(r) ->
        BigLeq(l, r)

\* f.limit_denominator(max_denominator) for f >= 0
limit_denominator(f, max_denominator) == Call("limit_denominator", <<f, max_denominator>>)
limit_denominator_def(f, max_denominator) ==
  LET maxd == BigOfNat(max_denominator)
      st == LimitLoop(<<>>, <<1>>, <<1>>, <<>>, f.num, f.den, maxd)
      k == BigDivMod(BigSub(maxd, st.q0), st.q1)[1]
      bound1 == Frac(FALSE, BigAdd(st.p0, BigMul(k, st.p1)), BigAdd(st.q0, BigMul(k, st.q1)))
      bound2 == Frac(FALSE, st.p1, st.q1)
  IN  IF BigLeq(f.den, maxd) THEN f
      ELSE CASE Eval(st) /\ Eval(k) /\ Eval(bound1) /\ Eval(bound2) ->
             IF CloserOrEqual(bound2.num, bound2.den, bound1.num, bound1.den,
                              f.num, f.den)
             THEN bound2
             ELSE bound1

\* int(f) for f >= 0
int_of_Fraction(f) == Call("int_of_Fraction", <<f>>)
int_of_Fraction_def(f) == BigDivMod(f.num, f.den)[1]

\* f - whole for f >= 0 and whole = int(f)
Fraction_minus_int(f, whole) == Call("Fraction_minus_int", <<f, whole>>)
Fraction_minus_int_def(f, whole) == Frac(FALSE, BigSub(f.num, BigMul(whole, f.den)), f.den)

\* str(f)
str_of_Fraction(f) == Call("str_of_Fraction", <<f>>)
str_of_Fraction_def(f) ==
  (IF f.neg THEN <<"-">> ELSE <<>>)
    \o (IF f.den = <<1>> THEN BigToDecimal(f.num)
        ELSE BigToDecimal(f.num) \o <<"/">> \o BigToDecimal(f.den))

\* whole + f for an int whole = [neg, mag] and a Fraction f
int_plus_Fraction(whole, f) == Call("int_plus_Fraction", <<whole, f>>)
int_plus_Fraction_def(whole, f) ==
  LET wn == BigMul(whole.mag, f.den)
  IN  IF whole.neg = f.neg THEN Frac(f.neg, BigAdd(wn, f.num), f.den)
      ELSE IF BigLess(wn, f.num) THEN Frac(f.neg, BigSub(f.num, wn), f.den)
      ELSE Frac(whole.neg, BigSub(wn, f.num), f.den)

(***************************************************************************)
(* The application (src/decimal_convertor.py).                             *)
(***************************************************************************)
\* the text "—" (U+2014) the result fields show before a conversion and
\* after a rejected one: a single character, different from every character
\* an input or a formatted number contains
Placeholder == <<"EM DASH">>

\* MM_PER_INCH: float = 25.4
MM_PER_INCH_def == float_of_str(<<"2", "5", ".", "4">>).val
MM_PER_INCH == Call("MM_PER_INCH", <<>>)

\* variants of the list: one that stops at 32, one that goes on to 128
Denominators_to_32 == <<2, 4, 8, 16, 32>>
Denominators_to_128 == <<2, 4, 8, 16, 32, 64, 128>>

\* for d in [2, 4, 8, 16, 32, 64]
Denominators == <<2, 4, 8, 16, 32, 64>>

\* a < b for Fractions that are not negative
FracLess(a, b) == Call("FracLess", <<a, b>>)
FracLess_def(a, b) == BigLess(BigMul(a.num, b.den), BigMul(b.num, a.den))

\* sorted(S): the elements of the set S of Fractions in ascending order
sorted(S) == Call("sorted", <<S>>)
sorted_def(S) ==
  LET below == {<<f, Cardinality({g \in S : FracLess(g, f)})>> : f \in S}
  IN  CASE Eval(below) ->
        Limbs([k \in 1..Cardinality(S) |-> (CHOOSE p \in below : p[2] = k - 1)[1]],
              Cardinality(S))

\* Fraction(n, d) for n >= 0, d > 0
Fraction_of_ints(n, d) == Call("Fraction_of_ints", <<n, d>>)
Fraction_of_ints_def(n, d) == Frac(FALSE, BigOfNat(n), BigOfNat(d))

\* sorted(set(Fraction(n, d) for d in [...] for n in range(1, d)
\*            if Fraction(n, d).denominator == d))
COMMON_FRACTIONS_def ==
  sorted({Fraction_of_ints(nd[1], nd[2]) :
            nd \in {p \in UNION {{<<n, Denominators[i]>> : n \in 1..(Denominators[i] - 1)} :
                                   i \in 1..Len(Denominators)} :
                      Fraction_of_ints(p[1], p[2]).den = BigOfNat(p[2])}})
COMMON_FRACTIONS == Call("COMMON_FRACTIONS", <<>>)

\* the rows of the three reference tables, as the Treeviews hold them
FracRows_def ==
  Limbs([i \in 1..Len(COMMON_FRACTIONS) |->
           <<str_of_Fraction(COMMON_FRACTIONS[i]),
             format_f(float_of_Fraction(COMMON_FRACTIONS[i]).val, 6)>>],
        Len(COMMON_FRACTIONS))
FracRows == Call("FracRows", <<>>)

InchesRows_def ==
  Limbs([i \in 1..Len(COMMON_FRACTIONS) |->
           LET inch_val == float_of_Fraction(COMMON_FRACTIONS[i]).val
           IN  <<str_of_Fraction(COMMON_FRACTIONS[i]),
                 format_f(inch_val, 6),
                 format_f(float_mul(inch_val, MM_PER_INCH), 4)>>],
        Len(COMMON_FRACTIONS))
InchesRows == Call("InchesRows", <<>>)

\* a variant that lists the millimeter rows from the largest to the smallest
MmRows_reversed ==
  Limbs([i \in 1..Len(InchesRows) |->
           <<InchesRows[Len(InchesRows) + 1 - i][3],
             InchesRows[Len(InchesRows) + 1 - i][2],
             InchesRows[Len(InchesRows) + 1 - i][1]>>],
        Len(InchesRows))

MmRows_def ==
  Limbs([i \in 1..Len(COMMON_FRACTIONS) |->
           LET inch_val == float_of_Fraction(COMMON_FRACTIONS[i]).val
           IN  <<format_f(float_mul(inch_val, MM_PER_INCH), 4),
                 format_f(inch_val, 6),
                 str_of_Fraction(COMMON_FRACTIONS[i])>>],
        Len(COMMON_FRACTIONS))
MmRows == Call("MmRows", <<>>)

\* what the user types into the fraction entry
FractionTexts ==
  { <<"3", "/", "8">>,
    <<" ", "3", "/", "8", " ">>,
    <<"7", "/", "1", "6">>,
    <<"-", "1", "/", "2">>,
    <<>>,
    <<" ">>,
    <<"3", "/", "0">>,
    <<"3", "/", "/", "8">>,
    <<"a">>,
    <<"1", " ", "3", "/", "8">>,
    <<"0", ".", "3", "7", "5">>,
    <<"1", "e", "4", "0", "0">>,
    <<"-", "1", "e", "-", "4", "0", "0">>,
    <<"i", "n", "f">>,
    <<"3", "/", "-", "8">>,
    <<"0">> }

\* what the user types into the inches entry, before blanks around it
InchesTexts ==
  { <<"3", "/", "8">>,
    <<"0", ".", "3", "7", "5">>,
    <<"1", " ", "3", "/", "8">>,
    <<"-", "1", " ", "3", "/", "8">>,
    <<"-", "1", " ", "3", "/", "2">>,
    <<"1", " ", "0", ".", "5">>,
    <<"1", " ", "-", "3", "/", "8">>,
    <<"0", " ", "3", "/", "8">>,
    <<"1", "\t", "3", "/", "8">>,
    <<>>,
    <<"1", " ", "2", " ", "3">>,
    <<"a">>,
    <<"x", " ", "3", "/", "8">>,
    <<"3", "/", "0">>,
    <<"1", " ", "3", "/", "0">>,
    <<"3", "/", "/", "8">>,
    <<"3", "/">>,
    <<"/", "8">>,
    <<"1", ".", "5", " ", "3", "/", "8">>,
    <<"-", "1", "/", "2">>,
    <<"-", "1", "e", "-", "4", "0", "0">>,
    <<"1", "e", "4", "0", "0">>,
    <<"n", "a", "n">>,
    <<"0">>,
    <<"1", "e", "2", "1">> }

\* at most this many blanks before and after a typed inch value
MaxPad == 1

Blanks(n) == [i \in 1..n |-> " "]

PaddedInchesTexts ==
  {Blanks(l) \o t \o Blanks(r) : t \in InchesTexts, l \in 0..MaxPad, r \in 0..MaxPad}

\* what the user types into the millimeter entry
MmTexts ==
  { <<"2", "5", ".", "4">>,
    <<" ", "2", "5", ".", "4", " ">>,
    <<"9", ".", "5", "2", "5">>,
    <<"8", ".", "4", "6", "6", "7">>,
    <<"0", ".", "1", "9", "8", "4", "3", "7", "5">>,
    <<"0">>,
    <<"-", "5">>,
    <<"-", "0", ".", "0">>,
    <<"-", "1", "e", "-", "4", "0", "0">>,
    <<"3", "/", "8">>,
    <<"1", " ", "3", "/", "8">>,
    <<"1", "e", "1">>,
    <<"1", "_", "0", "0", "0">>,
    <<"i", "n", "f">>,
    <<"n", "a", "n">>,
    <<"-", "i", "n", "f">>,
    <<"1", "e", "4", "0", "0">>,
    <<>>,
    <<"a", "b", "c">>,
    <<"3", "4", ".", "9", "2", "5">>,
    <<"5", "0", ".", "8">>,
    <<"+", "5">>,
    <<".", "5">>,
    <<"0", ".", "9", "9", "2", "1", "8", "7", "5">>,
    <<"2", "5", ".", "5", "9", "8", "4", "3", "7", "5">> }

(***************************************************************************)
(* The bodies of the three Convert callbacks, as functions of the entry's  *)
(* text.  A result of <<>> says that the callback did not set the field.   *)
(***************************************************************************)
\* except (ValueError, ZeroDivisionError)
ExceptFraction == {"ValueError", "ZeroDivisionError"}

\* the body of _convert_fraction on the entry's text:
\* [error, result (<<>>: not set), raised]
convert_fraction(text) == Call("convert_fraction", <<text>>)
convert_fraction_def(text) ==
  LET frac == Fraction_of_str(strip(text))
      dec == float_of_Fraction(frac)
  IN  CASE Eval(frac) ->
        IF frac.exc \in ExceptFraction
        THEN [error |-> "Enter a fraction like  3/8  or  7/16",
              result |-> Placeholder, raised |-> ""]
        ELSE IF frac.exc # ""
        THEN [error |-> "", result |-> <<>>, raised |-> frac.exc]
        ELSE IF frac.neg
        THEN [error |-> "Value must be positive.", result |-> Placeholder, raised |-> ""]
        ELSE IF dec.exc # ""
        THEN [error |-> "", result |-> <<>>, raised |-> dec.exc]
        ELSE [error |-> "", result |-> format_f(dec.val, 6), raised |-> ""]

\* a variant that leaves ZeroDivisionError uncaught
ExceptInches_ValueError == {"ValueError"}

\* except (ValueError, ZeroDivisionError)
ExceptInches == {"ValueError", "ZeroDivisionError"}

\* the try block of _convert_inches: [exc, val]
inches_of_text(raw) == Call("inches_of_text", <<raw>>)
inches_of_text_def(raw) ==
  LET parts == split(raw)
  IN  IF Len(parts) = 2
      THEN LET whole == int_of_str(parts[1])
               frac == Fraction_of_str(parts[2])
           IN  IF whole.exc # "" THEN [exc |-> whole.exc, val |-> FloatNaN]
               ELSE IF frac.exc # "" THEN [exc |-> frac.exc, val |-> FloatNaN]
               ELSE float_of_Fraction(int_plus_Fraction(whole, frac))
      ELSE IF Len(parts) = 1
      THEN LET frac == Fraction_of_str(raw)
           IN  IF frac.exc # "" THEN [exc |-> frac.exc, val |-> FloatNaN]
               ELSE float_of_Fraction(frac)
      ELSE [exc |-> "ValueError", val |-> FloatNaN]

\* the body of _convert_inches: [error, result (<<>>: not set), raised]
convert_inches(text) == Call("convert_inches", <<text>>)
convert_inches_def(text) ==
  LET inches == inches_of_text(strip(text))
  IN  CASE Eval(inches) ->
        IF inches.exc \in ExceptInches
        THEN [error |-> "Enter a value like  3/8,  1 3/8,  or  0.375",
              result |-> Placeholder, raised |-> ""]
        ELSE IF inches.exc # ""
        THEN [error |-> "", result |-> <<>>, raised |-> inches.exc]
        ELSE IF float_lt_zero(inches.val)
        THEN [error |-> "Value must be positive.", result |-> Placeholder, raised |-> ""]
        ELSE [error |-> "", result |-> format_f(float_mul(inches.val, MM_PER_INCH), 4),
              raised |-> ""]

\* except ValueError
ExceptMm == {"ValueError"}

\* a variant that writes the whole part and the remainder whatever they are
frac_str_always_mixed(nearest) ==
  BigToDecimal(int_of_Fraction(nearest)) \o <<" ">>
    \o str_of_Fraction(Fraction_minus_int(nearest, int_of_Fraction(nearest)))

\* frac_str: nearest (not negative) as "n/d", "whole" or "whole n/d"
frac_str(nearest) == Call("frac_str", <<nearest>>)
frac_str_def(nearest) ==
  LET whole == int_of_Fraction(nearest)
      remainder == Fraction_minus_int(nearest, whole)
  IN  CASE Eval(nearest) /\ Eval(whole) /\ Eval(remainder) ->
        IF whole = <<>> THEN str_of_Fraction(remainder)
        ELSE IF remainder.num = <<>> THEN BigToDecimal(whole)
        ELSE BigToDecimal(whole) \o <<" ">> \o str_of_Fraction(remainder)

\* a variant that limits the denominator to 32
nearest_fraction_to_32(inches) ==
  LET exact == Fraction_of_float(inches)
  IN  CASE Eval(exact) ->
        IF exact.exc # "" THEN [exc |-> exact.exc, text |-> <<>>]
        ELSE [exc |-> "", text |-> frac_str(limit_denominator(exact, 32))]

\* nearest = Fraction(inches).limit_denominator(64), as frac_str: [exc, text]
nearest_fraction(inches) == Call("nearest_fraction", <<inches>>)
nearest_fraction_def(inches) ==
  LET exact == Fraction_of_float(inches)
  IN  CASE Eval(exact) ->
        IF exact.exc # "" THEN [exc |-> exact.exc, text |-> <<>>]
        ELSE [exc |-> "", text |-> frac_str(limit_denominator(exact, 64))]

\* a variant that multiplies by the factor where the callback divides
mm_times_factor(mm) == float_mul(mm, MM_PER_INCH)

\* inches = mm / MM_PER_INCH
mm_to_inches(mm) == Call("mm_to_inches", <<mm>>)
mm_to_inches_def(mm) == float_div(mm, MM_PER_INCH)

\* the body of _convert_mm: [error, result, frac (<<>>: not set), raised]
convert_mm(text) == Call("convert_mm", <<text>>)
convert_mm_def(text) ==
  LET mm == float_of_str(strip(text))
  IN  CASE Eval(mm) ->
        IF mm.exc \in ExceptMm
        THEN [error |-> "Enter a numeric value in millimeters.",
              result |-> Placeholder, frac |-> Placeholder, raised |-> ""]
        ELSE IF mm.exc # ""
        THEN [error |-> "", result |-> <<>>, frac |-> <<>>, raised |-> mm.exc]
        ELSE IF float_lt_zero(mm.val)
        THEN [error |-> "Value must be positive.",
              result |-> Placeholder, frac |-> Placeholder, raised |-> ""]
        ELSE LET inches == mm_to_inches(mm.val)
                 near == nearest_fraction(inches)
             IN  CASE Eval(inches) /\ Eval(near) ->
                   IF near.exc # ""
                   THEN [error |-> "", result |-> format_f(inches, 6), frac |-> <<>>,
                         raised |-> near.exc]
                   ELSE [error |-> "", result |-> format_f(inches, 6), frac |-> near.text,
                         raised |-> ""]

(***************************************************************************)
(* The conversions of every text an entry can hold in this model, computed *)
(* once; a text outside the table is converted on the spot.                *)
(***************************************************************************)
Computed(f) == CASE Eval(f) -> f

FractionInputs_def == FractionTexts \cup {FracRows[i][1] : i \in 1..Len(FracRows)} \cup {<<>>}
InchesInputs_def == PaddedInchesTexts \cup {InchesRows[i][2] : i \in 1..Len(InchesRows)} \cup {<<>>}
MmInputs_def == MmTexts \cup {MmRows[i][1] : i \in 1..Len(MmRows)} \cup {<<>>}
FractionInputs == Call("FractionInputs", <<>>)
InchesInputs == Call("InchesInputs", <<>>)
MmInputs == Call("MmInputs", <<>>)

convert_fraction_table_def == Computed([t \in FractionInputs |-> convert_fraction(t)])
convert_inches_table_def == Computed([t \in InchesInputs |-> convert_inches(t)])
convert_mm_table_def == Computed([t \in MmInputs |-> convert_mm(t)])
convert_fraction_table == Call("convert_fraction_table", <<>>)
convert_inches_table == Call("convert_inches_table", <<>>)
convert_mm_table == Call("convert_mm_table", <<>>)

fraction_converted(text) == Call("fraction_converted", <<text>>)
fraction_converted_def(text) ==
  IF text \in FractionInputs THEN convert_fraction_table[text] ELSE convert_fraction(text)
inches_converted(text) == Call("inches_converted", <<text>>)
inches_converted_def(text) ==
  IF text \in InchesInputs THEN convert_inches_table[text] ELSE convert_inches(text)
mm_converted(text) == Call("mm_converted", <<text>>)
mm_converted_def(text) ==
  IF text \in MmInputs THEN convert_mm_table[text] ELSE convert_mm(text)

(***************************************************************************)
(* The Android front end (src/android/main.py): its constants, its tables  *)
(* and the bodies of the three tabs' _convert, as functions of the text of *)
(* the tab's entry.                                                        *)
(***************************************************************************)
\* a variant with a factor of 25
android_MM_PER_INCH_rounded == float_of_str(<<"2", "5">>).val

\* MM_PER_INCH: float = 25.4
android_MM_PER_INCH == float_of_str(<<"2", "5", ".", "4">>).val

\* for d in [2, 4, 8, 16, 32, 64]
android_Denominators == <<2, 4, 8, 16, 32, 64>>

\* sorted(set(Fraction(n, d) for d in [...] for n in range(1, d)
\*            if Fraction(n, d).denominator == d))
android_COMMON_FRACTIONS ==
  sorted({Fraction_of_ints(nd[1], nd[2]) :
            nd \in {p \in UNION {{<<n, android_Denominators[i]>> :
                                    n \in 1..(android_Denominators[i] - 1)} :
                                   i \in 1..Len(android_Denominators)} :
                      Fraction_of_ints(p[1], p[2]).den = BigOfNat(p[2])}})

\* [(str(f), f"{float(f):.6f}") for f in COMMON_FRACTIONS]
_FRAC_ROWS ==
  Limbs([i \in 1..Len(android_COMMON_FRACTIONS) |->
           <<str_of_Fraction(android_COMMON_FRACTIONS[i]),
             format_f(float_of_Fraction(android_COMMON_FRACTIONS[i]).val, 6)>>],
        Len(android_COMMON_FRACTIONS))

\* [(str(f), f"{float(f):.6f}", f"{float(f) * MM_PER_INCH:.4f}") for f in COMMON_FRACTIONS]
_INCHES_ROWS ==
  Limbs([i \in 1..Len(android_COMMON_FRACTIONS) |->
           <<str_of_Fraction(android_COMMON_FRACTIONS[i]),
             format_f(float_of_Fraction(android_COMMON_FRACTIONS[i]).val, 6),
             format_f(float_mul(float_of_Fraction(android_COMMON_FRACTIONS[i]).val,
                                android_MM_PER_INCH), 4)>>],
        Len(android_COMMON_FRACTIONS))

\* [(f"{float(f) * MM_PER_INCH:.4f}", f"{float(f):.6f}", str(f)) for f in COMMON_FRACTIONS]
_MM_ROWS ==
  Limbs([i \in 1..Len(android_COMMON_FRACTIONS) |->
           <<format_f(float_mul(float_of_Fraction(android_COMMON_FRACTIONS[i]).val,
                                android_MM_PER_INCH), 4),
             format_f(float_of_Fraction(android_COMMON_FRACTIONS[i]).val, 6),
             str_of_Fraction(android_COMMON_FRACTIONS[i])>>],
        Len(android_COMMON_FRACTIONS))

\* FractionTab._convert on the entry's text:
\* [error, result (<<>>: not set), raised]
FractionTab_convert(text) ==
  LET frac == Fraction_of_str(strip(text))
      dec == float_of_Fraction(frac)
  IN  CASE Eval(frac) ->
        IF frac.exc \in {"ValueError", "ZeroDivisionError"}
        THEN [error |-> "Enter a fraction like  3/8  or  7/16",
              result |-> Placeholder, raised |-> ""]
        ELSE IF frac.exc # ""
        THEN [error |-> "", result |-> <<>>, raised |-> frac.exc]
        ELSE IF frac.neg
        THEN [error |-> "Value must be positive.", result |-> Placeholder, raised |-> ""]
        ELSE IF dec.exc # ""
        THEN [error |-> "", result |-> <<>>, raised |-> dec.exc]
        ELSE [error |-> "", result |-> format_f(dec.val, 6), raised |-> ""]

\* the try block of InchesMMTab._convert: [exc, val]
InchesMMTab_inches(raw) ==
  LET parts == split(raw)
  IN  IF Len(parts) = 2
      THEN LET whole == int_of_str(parts[1])
               frac == Fraction_of_str(parts[2])
           IN  IF whole.exc # "" THEN [exc |-> whole.exc, val |-> FloatNaN]
               ELSE IF frac.exc # "" THEN [exc |-> frac.exc, val |-> FloatNaN]
               ELSE float_of_Fraction(int_plus_Fraction(whole, frac))
      ELSE IF Len(parts) = 1
      THEN LET frac == Fraction_of_str(raw)
           IN  IF frac.exc # "" THEN [exc |-> frac.exc, val |-> FloatNaN]
               ELSE float_of_Fraction(frac)
      ELSE [exc |-> "ValueError", val |-> FloatNaN]

\* InchesMMTab._convert: [error, result (<<>>: not set), raised]
InchesMMTab_convert(text) ==
  LET inches == InchesMMTab_inches(strip(text))
  IN  CASE Eval(inches) ->
        IF inches.exc \in {"ValueError", "ZeroDivisionError"}
        THEN [error |-> "Enter a value like  3/8,  1 3/8,  or  0.375",
              result |-> Placeholder, raised |-> ""]
        ELSE IF inches.exc # ""
        THEN [error |-> "", result |-> <<>>, raised |-> inches.exc]
        ELSE IF float_lt_zero(inches.val)
        THEN [error |-> "Value must be positive.", result |-> Placeholder, raised |-> ""]
        ELSE [error |-> "",
              result |-> format_f(float_mul(inches.val, android_MM_PER_INCH), 4),
              raised |-> ""]

\* frac_str of MMInchesTab._convert
MMInchesTab_frac_str(nearest) ==
  LET whole == int_of_Fraction(nearest)
      remainder == Fraction_minus_int(nearest, whole)
  IN  CASE Eval(nearest) /\ Eval(whole) /\ Eval(remainder) ->
        IF whole = <<>> THEN str_of_Fraction(remainder)
        ELSE IF remainder.num = <<>> THEN BigToDecimal(whole)
        ELSE BigToDecimal(whole) \o <<" ">> \o str_of_Fraction(remainder)

\* MMInchesTab._convert after the tests of mm, on inches = mm / MM_PER_INCH
MMInchesTab_results(inches) ==
  LET exact == Fraction_of_float(inches)
  IN  CASE Eval(inches) /\ Eval(exact) ->
        IF exact.exc # ""
        THEN [error |-> "", result |-> format_f(inches, 6), frac |-> <<>>,
              raised |-> exact.exc]
        ELSE [error |-> "", result |-> format_f(inches, 6),
              frac |-> MMInchesTab_frac_str(limit_denominator(exact, 64)),
              raised |-> ""]

\* MMInchesTab._convert: [error, result, frac (<<>>: not set), raised]
MMInchesTab_convert(text) ==
  LET mm == float_of_str(strip(text))
  IN  CASE Eval(mm) ->
        IF mm.exc = "ValueError"
        THEN [error |-> "Enter a numeric millimeter value.",
              result |-> Placeholder, frac |-> Placeholder, raised |-> ""]
        ELSE IF mm.exc # ""
        THEN [error |-> "", result |-> <<>>, frac |-> <<>>, raised |-> mm.exc]
        ELSE IF float_lt_zero(mm.val)
        THEN [error |-> "Value must be positive.",
              result |-> Placeholder, frac |-> Placeholder, raised |-> ""]
        ELSE MMInchesTab_results(float_div(mm.val, android_MM_PER_INCH))

\* The evaluator: one arm per operator of the library.  An operator X is
\* defined as Call("X", <<arguments>>) and computed by X_def.
Call(op, args) ==
  CASE op = "BigNorm" -> BigNorm_def(args[1])
    [] op = "BigOfNat" -> BigOfNat_def(args[1])
    [] op = "CarryScan" -> CarryScan_def(args[1], args[2])
    [] op = "BigAdd" -> BigAdd_def(args[1], args[2])
    [] op = "BigSub" -> BigSub_def(args[1], args[2])
    [] op = "BigAbsDiff" -> BigAbsDiff_def(args[1], args[2])
    [] op = "BigMulSmall" -> BigMulSmall_def(args[1], args[2])
    [] op = "BigMulRange" -> BigMulRange_def(args[1], args[2], args[3], args[4])
    [] op = "BigMul" -> BigMul_def(args[1], args[2])
    [] op = "BigShl" -> BigShl_def(args[1], args[2])
    [] op = "BigShr" -> BigShr_def(args[1], args[2])
    [] op = "BigPow2" -> BigPow2_def(args[1])
    [] op = "BigDivStep" -> BigDivStep_def(args[1], args[2])
    [] op = "BigDivRange" -> BigDivRange_def(args[1], args[2], args[3], args[4], args[5])
    [] op = "BigDivMod" -> BigDivMod_def(args[1], args[2])
    [] op = "BigGcd" -> BigGcd_def(args[1], args[2])
    [] op = "BigPow10" -> BigPow10_def(args[1])
    [] op = "split" -> split_def(args[1])
    [] op = "DecimalToBig" -> DecimalToBig_def(args[1])
    [] op = "DecimalValue" -> DecimalValue_def(args[1], args[2], args[3], args[4])
    [] op = "DecimalMantissa" -> DecimalMantissa_def(args[1], args[2], args[3], args[4], args[5])
    [] op = "DecimalOfDigits" -> DecimalOfDigits_def(args[1], args[2], args[3], args[4])
    [] op = "DecimalOfParts" -> DecimalOfParts_def(args[1], args[2], args[3], args[4], args[5], args[6])
    [] op = "DecimalExponent" -> DecimalExponent_def(args[1], args[2], args[3], args[4], args[5], args[6])
    [] op = "DecimalAfterFraction" -> DecimalAfterFraction_def(args[1], args[2], args[3], args[4], args[5])
    [] op = "DecimalFraction" -> DecimalFraction_def(args[1], args[2], args[3], args[4], args[5])
    [] op = "DecimalPoint" -> DecimalPoint_def(args[1], args[2], args[3], args[4])
    [] op = "DecimalInteger" -> DecimalInteger_def(args[1], args[2], args[3])
    [] op = "ParseInteger" -> ParseInteger_def(args[1], args[2])
    [] op = "ParseDecimal" -> ParseDecimal_def(args[1])
    [] op = "int_of_str" -> int_of_str_def(args[1])
    [] op = "Frac" -> Frac_def(args[1], args[2], args[3])
    [] op = "Fraction_of_str" -> Fraction_of_str_def(args[1])
    [] op = "DoubleCarry" -> DoubleCarry_def(args[1], args[2])
    [] op = "DoubleRound" -> DoubleRound_def(args[1], args[2], args[3])
    [] op = "DoubleQuotient" -> DoubleQuotient_def(args[1], args[2], args[3])
    [] op = "DoubleScaled" -> DoubleScaled_def(args[1], args[2], args[3])
    [] op = "DoubleTop" -> DoubleTop_def(args[1], args[2], args[3])
    [] op = "DoubleBits" -> DoubleBits_def(args[1], args[2], args[3])
    [] op = "RoundToDouble" -> RoundToDouble_def(args[1], args[2])
    [] op = "float_of_str" -> float_of_str_def(args[1])
    [] op = "float_of_Fraction" -> float_of_Fraction_def(args[1])
    [] op = "float_mul" -> float_mul_def(args[1], args[2])
    [] op = "float_div" -> float_div_def(args[1], args[2])
    [] op = "DecimalDigits" -> DecimalDigits_def(args[1], args[2])
    [] op = "BigToDecimal" -> BigToDecimal_def(args[1])
    [] op = "FixedRound" -> FixedRound_def(args[1], args[2], args[3])
    [] op = "FixedRemainder" -> FixedRemainder_def(args[1], args[2], args[3], args[4])
    [] op = "FixedQuotient" -> FixedQuotient_def(args[1], args[2], args[3], args[4])
    [] op = "FixedScaled" -> FixedScaled_def(args[1], args[2], args[3])
    [] op = "format_f" -> format_f_def(args[1], args[2])
    [] op = "Fraction_of_float" -> Fraction_of_float_def(args[1])
    [] op = "LimitLoop" -> LimitLoop_def(args[1], args[2], args[3], args[4], args[5], args[6], args[7])
    [] op = "CloserOrEqual" -> CloserOrEqual_def(args[1], args[2], args[3], args[4], args[5], args[6])
    [] op = "limit_denominator" -> limit_denominator_def(args[1], args[2])
    [] op = "int_of_Fraction" -> int_of_Fraction_def(args[1])
    [] op = "Fraction_minus_int" -> Fraction_minus_int_def(args[1], args[2])
    [] op = "str_of_Fraction" -> str_of_Fraction_def(args[1])
    [] op = "int_plus_Fraction" -> int_plus_Fraction_def(args[1], args[2])
    [] op = "MM_PER_INCH" -> MM_PER_INCH_def
    [] op = "FracLess" -> FracLess_def(args[1], args[2])
    [] op = "sorted" -> sorted_def(args[1])
    [] op = "Fraction_of_ints" -> Fraction_of_ints_def(args[1], args[2])
    [] op = "COMMON_FRACTIONS" -> COMMON_FRACTIONS_def
    [] op = "FracRows" -> FracRows_def
    [] op = "InchesRows" -> InchesRows_def
    [] op = "MmRows" -> MmRows_def
    [] op = "convert_fraction" -> convert_fraction_def(args[1])
    [] op = "inches_of_text" -> inches_of_text_def(args[1])
    [] op = "convert_inches" -> convert_inches_def(args[1])
    [] op = "frac_str" -> frac_str_def(args[1])
    [] op = "nearest_fraction" -> nearest_fraction_def(args[1])
    [] op = "mm_to_inches" -> mm_to_inches_def(args[1])
    [] op = "convert_mm" -> convert_mm_def(args[1])
    [] op = "FractionInputs" -> FractionInputs_def
    [] op = "InchesInputs" -> InchesInputs_def
    [] op = "MmInputs" -> MmInputs_def
    [] op = "convert_fraction_table" -> convert_fraction_table_def
    [] op = "convert_inches_table" -> convert_inches_table_def
    [] op = "convert_mm_table" -> convert_mm_table_def
    [] op = "fraction_converted" -> fraction_converted_def(args[1])
    [] op = "inches_converted" -> inches_converted_def(args[1])
    [] op = "mm_converted" -> mm_converted_def(args[1])

(***************************************************************************)
(* State: the StringVars of DecimalConverterApp, and what the last         *)
(* callback was and did.  An exception that leaves a callback is reported  *)
(* by Tk and the main loop goes on: `raised` is its name, "" when the      *)
(* callback returned.                                                      *)
(***************************************************************************)
VARIABLES fraction_var, frac_result_var, frac_error_var,
          inches_var, mm_result_var, inches_error_var,
          mm_input_var, mm_to_in_result_var, mm_to_in_frac_var, mm_error_var,
          handler, raised

\* The tray: the setting, the state of the window, self._tray_icon (0 is
\* None, an icon is its number in order of creation), the icons whose loop
\* runs, how many icons were made, the <Unmap> events and the after(0, ...)
\* callbacks that wait for the main loop, where the main loop's thread is,
\* and where the menu callback of each icon's thread is.
VARIABLES minimize_to_tray, window, _tray_icon, live, created,
          unmaps, after_queue, ui_pc, menu_callback

trayVars == <<minimize_to_tray, window, _tray_icon, live, created,
              unmaps, after_queue, ui_pc, menu_callback>>

fractionTab == <<fraction_var, frac_result_var, frac_error_var>>
inchesTab == <<inches_var, mm_result_var, inches_error_var>>
mmTab == <<mm_input_var, mm_to_in_result_var, mm_to_in_frac_var, mm_error_var>>
entries == <<fractionTab, inchesTab, mmTab, handler, raised>>
vars == <<entries, trayVars>>

\* at most this many tray icons are made in a run
MaxIcons == 2

Icons == 1..MaxIcons

Init ==
  /\ fraction_var = <<>>
  /\ frac_result_var = Placeholder
  /\ frac_error_var = ""
  /\ inches_var = <<>>
  /\ mm_result_var = Placeholder
  /\ inches_error_var = ""
  /\ mm_input_var = <<>>
  /\ mm_to_in_result_var = Placeholder
  /\ mm_to_in_frac_var = Placeholder
  /\ mm_error_var = ""
  /\ handler = ""
  /\ raised = ""
  /\ minimize_to_tray = TRUE
  /\ window = "normal"
  /\ _tray_icon = 0
  /\ live = {}
  /\ created = 0
  /\ unmaps = 0
  /\ after_queue = <<>>
  /\ ui_pc = "mainloop"
  /\ menu_callback = [i \in Icons |-> [item |-> "", pc |-> "idle"]]

(***************************************************************************)
(* Tab 1: Fraction -> Decimal                                              *)
(***************************************************************************)
\* the user types into the fraction entry
EditFraction ==
  /\ \E t \in FractionTexts : fraction_var' = t
  /\ handler' = "edit"
  /\ raised' = ""
  /\ UNCHANGED <<frac_result_var, frac_error_var, inchesTab, mmTab, trayVars>>

\* what a conversion with outcome r leaves in the tab's fields
ShowFraction(r, callback) ==
  /\ frac_error_var' = r.error
  /\ frac_result_var' = IF r.result = <<>> THEN frac_result_var ELSE r.result
  /\ raised' = r.raised
  /\ handler' = callback

_convert_fraction ==
  /\ ShowFraction(fraction_converted(fraction_var), "_convert_fraction")
  /\ UNCHANGED <<fraction_var, inchesTab, mmTab, trayVars>>

\* the rows of a table
Rows(table) == {table[i] : i \in 1..Len(table)}

\* the user selects a row of the tab's reference table: its first column is
\* put into the entry and converted
SelectFraction(text) ==
  /\ fraction_var' = text
  /\ ShowFraction(fraction_converted(text), "_on_frac_row_select")
  /\ UNCHANGED <<inchesTab, mmTab, trayVars>>

_on_frac_row_select == \E row \in Rows(FracRows) : SelectFraction(row[1])

(***************************************************************************)
(* Tab 2: Inches -> Millimeters                                            *)
(***************************************************************************)
EditInches ==
  /\ \E t \in PaddedInchesTexts : inches_var' = t
  /\ handler' = "edit"
  /\ raised' = ""
  /\ UNCHANGED <<mm_result_var, inches_error_var, fractionTab, mmTab, trayVars>>

ShowInches(r, callback) ==
  /\ inches_error_var' = r.error
  /\ mm_result_var' = IF r.result = <<>> THEN mm_result_var ELSE r.result
  /\ raised' = r.raised
  /\ handler' = callback

_convert_inches ==
  /\ ShowInches(inches_converted(inches_var), "_convert_inches")
  /\ UNCHANGED <<inches_var, fractionTab, mmTab, trayVars>>

\* selecting a row converts its decimal column
SelectInches(text) ==
  /\ inches_var' = text
  /\ ShowInches(inches_converted(text), "_on_inches_row_select")
  /\ UNCHANGED <<fractionTab, mmTab, trayVars>>

_on_inches_row_select == \E row \in Rows(InchesRows) : SelectInches(row[2])

(***************************************************************************)
(* Tab 3: Millimeters -> Inches                                            *)
(***************************************************************************)
EditMm ==
  /\ \E t \in MmTexts : mm_input_var' = t
  /\ handler' = "edit"
  /\ raised' = ""
  /\ UNCHANGED <<mm_to_in_result_var, mm_to_in_frac_var, mm_error_var,
                 fractionTab, inchesTab, trayVars>>

ShowMm(r, callback) ==
  /\ mm_error_var' = r.error
  /\ mm_to_in_result_var' = IF r.result = <<>> THEN mm_to_in_result_var ELSE r.result
  /\ mm_to_in_frac_var' = IF r.frac = <<>> THEN mm_to_in_frac_var ELSE r.frac
  /\ raised' = r.raised
  /\ handler' = callback

_convert_mm ==
  /\ ShowMm(mm_converted(mm_input_var), "_convert_mm")
  /\ UNCHANGED <<mm_input_var, fractionTab, inchesTab, trayVars>>

\* selecting a row converts its millimeter column
SelectMm(text) ==
  /\ mm_input_var' = text
  /\ ShowMm(mm_converted(text), "_on_mm_row_select")
  /\ UNCHANGED <<fractionTab, inchesTab, trayVars>>

_on_mm_row_select == \E row \in Rows(MmRows) : SelectMm(row[1])

(***************************************************************************)
(* The system tray.  The main loop's thread runs _on_unmap, _start_tray    *)
(* and the after(0, ...) callbacks; each icon's own thread runs the menu   *)
(* callbacks _restore and _quit_app of that icon, statement by statement.  *)
(***************************************************************************)
\* the user minimises the window: the window manager unmaps it and Tk
\* queues an <Unmap> event for the main loop
Minimise ==
  /\ window = "normal"
  /\ created + unmaps < MaxIcons
  /\ window' = "iconic"
  /\ unmaps' = unmaps + 1
  /\ UNCHANGED <<minimize_to_tray, _tray_icon, live, created, after_queue, ui_pc,
                 menu_callback, entries>>

\* the user brings the minimised window back from the taskbar
Unminimise ==
  /\ window = "iconic"
  /\ window' = "normal"
  /\ UNCHANGED <<minimize_to_tray, _tray_icon, live, created, unmaps, after_queue,
                 ui_pc, menu_callback, entries>>

\* Settings > Minimize to system tray
ToggleMinimizeToTray ==
  /\ ui_pc = "mainloop"
  /\ window = "normal"
  /\ minimize_to_tray' = ~minimize_to_tray
  /\ UNCHANGED <<window, _tray_icon, live, created, unmaps, after_queue, ui_pc,
                 menu_callback, entries>>

\* _on_unmap, for an <Unmap> event of the window itself:
\* if self.minimize_to_tray.get(): self.withdraw(); self._start_tray()
_on_unmap ==
  /\ ui_pc = "mainloop"
  /\ unmaps > 0
  /\ unmaps' = unmaps - 1
  /\ IF minimize_to_tray
     THEN window' = "withdrawn" /\ ui_pc' = "_start_tray"
     ELSE UNCHANGED <<window, ui_pc>>
  /\ UNCHANGED <<minimize_to_tray, _tray_icon, live, created, after_queue,
                 menu_callback, entries>>

\* _start_tray: nothing if self._tray_icon is not None; else a new icon is
\* made, kept in self._tray_icon, and its loop is started in a thread
_start_tray ==
  /\ ui_pc = "_start_tray"
  /\ ui_pc' = "mainloop"
  /\ IF _tray_icon # 0
     THEN UNCHANGED <<_tray_icon, live, created>>
     ELSE /\ created' = created + 1
          /\ _tray_icon' = created + 1
          /\ live' = live \cup {created + 1}
  /\ UNCHANGED <<minimize_to_tray, window, unmaps, after_queue, menu_callback, entries>>

\* the main loop runs the after(0, ...) menu_callback that waits longest
deiconify ==
  /\ ui_pc = "mainloop"
  /\ after_queue # <<>>
  /\ Head(after_queue) = "deiconify"
  /\ after_queue' = Tail(after_queue)
  /\ window' = "normal"
  /\ UNCHANGED <<minimize_to_tray, _tray_icon, live, created, unmaps, ui_pc,
                 menu_callback, entries>>

\* self.destroy: the window is gone and mainloop returns
destroy ==
  /\ ui_pc = "mainloop"
  /\ after_queue # <<>>
  /\ Head(after_queue) = "destroy"
  /\ after_queue' = Tail(after_queue)
  /\ window' = "destroyed"
  /\ ui_pc' = "exited"
  /\ UNCHANGED <<minimize_to_tray, _tray_icon, live, created, unmaps, menu_callback, entries>>

\* the user picks an item of the menu of icon i: its thread calls _restore
\* (Restore) or _quit_app (Quit)
Pick(i, item) ==
  /\ i \in live
  /\ menu_callback[i].pc = "idle"
  /\ menu_callback' = [menu_callback EXCEPT ![i] = [item |-> item, pc |-> "if"]]
  /\ UNCHANGED <<minimize_to_tray, window, _tray_icon, live, created, unmaps,
                 after_queue, ui_pc, entries>>

\* if self._tray_icon:
TestTrayIcon(i) ==
  /\ menu_callback[i].pc = "if"
  /\ menu_callback' = [menu_callback EXCEPT ![i].pc = IF _tray_icon # 0 THEN "stop" ELSE "after"]
  /\ UNCHANGED <<minimize_to_tray, window, _tray_icon, live, created, unmaps,
                 after_queue, ui_pc, entries>>

\* self._tray_icon.stop(): AttributeError if it is None by now
StopTrayIcon(i) ==
  /\ menu_callback[i].pc = "stop"
  /\ menu_callback' = [menu_callback EXCEPT ![i].pc = IF _tray_icon # 0 THEN "clear" ELSE "raised"]
  /\ live' = live \ {_tray_icon}
  /\ UNCHANGED <<minimize_to_tray, window, _tray_icon, created, unmaps,
                 after_queue, ui_pc, entries>>

\* self._tray_icon = None
ClearTrayIcon(i) ==
  /\ menu_callback[i].pc = "clear"
  /\ _tray_icon' = 0
  /\ menu_callback' = [menu_callback EXCEPT ![i].pc = "after"]
  /\ UNCHANGED <<minimize_to_tray, window, live, created, unmaps,
                 after_queue, ui_pc, entries>>

\* self.after(0, self.deiconify) or self.after(0, self.destroy), from the
\* icon's thread: RuntimeError once mainloop has returned
CallAfter(i) ==
  /\ menu_callback[i].pc = "after"
  /\ IF ui_pc = "exited"
     THEN /\ menu_callback' = [menu_callback EXCEPT ![i].pc = "raised"]
          /\ UNCHANGED after_queue
     ELSE /\ after_queue' =
               Append(after_queue,
                      IF menu_callback[i].item = "Restore" THEN "deiconify" ELSE "destroy")
          /\ menu_callback' = [menu_callback EXCEPT ![i] = [item |-> "", pc |-> "idle"]]
  /\ UNCHANGED <<minimize_to_tray, window, _tray_icon, live, created, unmaps,
                 ui_pc, entries>>

\* the statements of the main loop's thread
MainLoop == _on_unmap \/ _start_tray \/ deiconify \/ destroy

\* the statements of the menu menu_callback in the thread of icon i
TrayThread(i) == TestTrayIcon(i) \/ StopTrayIcon(i) \/ ClearTrayIcon(i) \/ CallAfter(i)

NextTray ==
  \/ Minimise \/ Unminimise \/ ToggleMinimizeToTray
  \/ MainLoop
  \/ \E i \in Icons : Pick(i, "Restore") \/ Pick(i, "Quit") \/ TrayThread(i)
SpecTray == Init /\ [][NextTray]_vars

\* the main loop goes on taking what waits for it, and a thread that has
\* begun a menu menu_callback goes on with it
SpecTrayFair ==
  /\ SpecTray
  /\ WF_vars(MainLoop)
  /\ \A i \in Icons : WF_vars(TrayThread(i))

(***************************************************************************)
(* Specifications.  Each tab's fields are written by that tab's callbacks  *)
(* only, so a tab is also checked on its own.                              *)
(***************************************************************************)
Next ==
  \/ EditFraction \/ _convert_fraction \/ _on_frac_row_select
  \/ EditInches \/ _convert_inches \/ _on_inches_row_select
  \/ EditMm \/ _convert_mm \/ _on_mm_row_select
  \/ NextTray
Spec == Init /\ [][Next]_vars

NextFraction == EditFraction \/ _convert_fraction \/ _on_frac_row_select
SpecFraction == Init /\ [][NextFraction]_vars

NextInches == EditInches \/ _convert_inches \/ _on_inches_row_select
SpecInches == Init /\ [][NextInches]_vars

NextMm == EditMm \/ _convert_mm \/ _on_mm_row_select
SpecMm == Init /\ [][NextMm]_vars

\* The round trip: the user begins by selecting a row of the fraction table,
\* types the decimal shown into the inches entry and converts, then types the
\* millimeters shown into the millimeter entry and converts.
BeginWithRow == handler = "" /\ _on_frac_row_select

CarryDecimalToInches ==
  /\ handler = "_on_frac_row_select"
  /\ frac_result_var # Placeholder
  /\ inches_var' = frac_result_var
  /\ handler' = "edit"
  /\ raised' = ""
  /\ UNCHANGED <<mm_result_var, inches_error_var, fractionTab, mmTab, trayVars>>

CarryMmToMmEntry ==
  /\ handler = "_convert_inches"
  /\ mm_result_var # Placeholder
  /\ mm_input_var' = mm_result_var
  /\ handler' = "edit"
  /\ raised' = ""
  /\ UNCHANGED <<mm_to_in_result_var, mm_to_in_frac_var, mm_error_var,
                 fractionTab, inchesTab, trayVars>>

NextRoundTrip ==
  \/ BeginWithRow
  \/ CarryDecimalToInches
  \/ _convert_inches
  \/ CarryMmToMmEntry
  \/ _convert_mm
SpecRoundTrip == Init /\ [][NextRoundTrip]_vars

\* A session in one tab: the user works in the tab that is open and the
\* fields of the two other tabs stay as they were built.
FractionTabAsBuilt == fractionTab = <<<<>>, Placeholder, "">>
InchesTabAsBuilt == inchesTab = <<<<>>, Placeholder, "">>
MmTabAsBuilt == mmTab = <<<<>>, Placeholder, Placeholder, "">>

InFractionTab == InchesTabAsBuilt /\ MmTabAsBuilt /\ NextFraction
InInchesTab == FractionTabAsBuilt /\ MmTabAsBuilt /\ NextInches
InMmTab == FractionTabAsBuilt /\ InchesTabAsBuilt /\ NextMm

NextOneTab == InFractionTab \/ InInchesTab \/ InMmTab
SpecOneTab == Init /\ [][NextOneTab]_vars

(***************************************************************************)
(* Properties.                                                             *)
(***************************************************************************)
AfterFractionConversion == handler \in {"_convert_fraction", "_on_frac_row_select"}
AfterInchesConversion == handler \in {"_convert_inches", "_on_inches_row_select"}
AfterMmConversion == handler \in {"_convert_mm", "_on_mm_row_select"}

\* the decimal-inch value of the millimeter entry's text
DecimalInches == mm_to_inches(float_of_str(strip(mm_input_var)).val)

\* C1: after a successful mm-to-inches conversion the nearest fraction shown
\* is the k/64 closest to the decimal-inch value, so that its denominator
\* divides 64.  With x the decimal-inch value and lo = floor(64 x), the
\* closest is lo/64 when 128 x <= 2 lo + 1 and (lo + 1)/64 when
\* 128 x >= 2 lo + 1.
C1_NearestOfSixtyFourths ==
  (AfterMmConversion /\ mm_error_var = "" /\ raised = "") =>
    LET x == Fraction_of_float(DecimalInches)
        lo == BigDivMod(BigMul(x.num, <<64>>), x.den)[1]
        twice == BigMul(x.num, <<128>>)
        mid == BigMul(BigAdd(BigAdd(lo, lo), <<1>>), x.den)
    IN  \/ /\ BigLeq(twice, mid)
           /\ mm_to_in_frac_var = frac_str(Frac(FALSE, lo, <<64>>))
        \/ /\ BigLeq(mid, twice)
           /\ mm_to_in_frac_var = frac_str(Frac(FALSE, BigAdd(lo, <<1>>), <<64>>))

\* the round trip has been carried through: the inches entry holds the
\* decimal shown for the selected fraction, the millimeter entry the
\* millimeters shown for it
CarriedThrough ==
  /\ frac_result_var # Placeholder
  /\ inches_var = frac_result_var
  /\ mm_result_var # Placeholder
  /\ mm_input_var = mm_result_var

\* C2: round trip.  For the entry r selected in the fraction table, r to
\* decimal inches, to millimeters, and back gives the nearest fraction r
\* itself: the text shown is that of the row, with no whole part.
C2_RoundTrip ==
  (handler = "_convert_mm" /\ CarriedThrough) =>
    /\ mm_error_var = ""
    /\ raised = ""
    /\ mm_to_in_frac_var = fraction_var

C2_Witness ==
  /\ handler = "_convert_mm"
  /\ CarriedThrough
  /\ fraction_var = <<"6", "3", "/", "6", "4">>
  /\ mm_input_var = <<"2", "5", ".", "0", "0", "3", "1">>
  /\ mm_to_in_frac_var = <<"6", "3", "/", "6", "4">>

\* C3: a conversion is total: it ends with an error message or with values
\* shown, and no exception leaves the callback.
C3_Total ==
  AfterMmConversion =>
    /\ raised = ""
    /\ \/ mm_error_var # ""
       \/ mm_to_in_result_var # Placeholder /\ mm_to_in_frac_var # Placeholder

\* C4: no partial success.  After a conversion on the mm tab either the
\* error message is set and both result fields show the placeholder, or the
\* message is empty and both fields hold the values of the current input.
C4_NoPartialSuccess ==
  AfterMmConversion =>
    \/ /\ mm_error_var # ""
       /\ mm_to_in_result_var = Placeholder
       /\ mm_to_in_frac_var = Placeholder
    \/ /\ mm_error_var = ""
       /\ mm_to_in_result_var = format_f(DecimalInches, 6)
       /\ mm_to_in_frac_var = nearest_fraction(DecimalInches).text

InchesParseErrorShown ==
  /\ inches_error_var = "Enter a value like  3/8,  1 3/8,  or  0.375"
  /\ mm_result_var = Placeholder
  /\ raised = ""

InchesNegativeErrorShown ==
  /\ inches_error_var = "Value must be positive."
  /\ mm_result_var = Placeholder
  /\ raised = ""

AllDigits(s) == Len(s) > 0 /\ \A i \in 1..Len(s) : IsDigit(s[i])

\* an integer: an optional sign and digits
IsIntegerText(s) == AllDigits(Unsigned(s))

SlashesOf(s) == {i \in 1..Len(s) : s[i] = "/"}
BeforeSlash(s) == SubSeq(s, 1, MinOf(SlashesOf(s)) - 1)
AfterSlash(s) == SubSeq(s, MinOf(SlashesOf(s)) + 1, Len(s))

\* n/d: an integer, a slash, digits that are not all 0
IsSlashForm(s) ==
  /\ Cardinality(SlashesOf(s)) = 1
  /\ IsIntegerText(BeforeSlash(s))
  /\ AllDigits(AfterSlash(s))
  /\ \E i \in 1..Len(AfterSlash(s)) : AfterSlash(s)[i] # "0"

\* C5: a two-token inch input is rejected with the parse error unless it is
\* an integer followed by n/d; accepted, it is |whole| + n/d with the sign of
\* the whole number: negative, the Negative error; otherwise its millimeters.
C5_MixedNumber ==
  (AfterInchesConversion /\ Len(split(inches_var)) = 2) =>
    LET first == split(inches_var)[1]
        second == split(inches_var)[2]
    IN  IF ~(IsIntegerText(first) /\ IsSlashForm(second))
        THEN InchesParseErrorShown
        ELSE LET part == Frac(IsNegative(second),
                              DecimalToBig(Unsigned(BeforeSlash(second))),
                              DecimalToBig(AfterSlash(second)))
                 combined == int_plus_Fraction(
                               [neg |-> FALSE, mag |-> DecimalToBig(Unsigned(first))], part)
             IN  IF combined.num # <<>> /\ (IsNegative(first) # combined.neg)
                 THEN InchesNegativeErrorShown
                 ELSE /\ inches_error_var = ""
                      /\ raised = ""
                      /\ mm_result_var =
                           format_f(float_mul(float_of_Fraction(combined).val, MM_PER_INCH), 4)

\* the inch text is a number, or a whole number and a fraction, below zero
ParsesBelowZero(t) ==
  LET parts == split(t)
  IN  IF Len(parts) = 1
      THEN Fraction_of_str(parts[1]).exc = "" /\ Fraction_of_str(parts[1]).neg
      ELSE /\ Len(parts) = 2
           /\ int_of_str(parts[1]).exc = ""
           /\ Fraction_of_str(parts[2]).exc = ""
           /\ int_plus_Fraction(int_of_str(parts[1]), Fraction_of_str(parts[2])).neg

\* C6: an input that parses to a value below zero gets the Negative error:
\* the message is set, the result shows the placeholder, nothing numeric is
\* shown.
C6_NegativeRejected ==
  (AfterInchesConversion /\ ParsesBelowZero(inches_var)) => InchesNegativeErrorShown

Coprime(n, d) == \A k \in 2..n : ~(n % k = 0 /\ d % k = 0)

\* the pairs (n, d) with d in {2, 4, 8, 16, 32, 64}, 1 <= n <= d - 1 and
\* gcd(n, d) = 1
ReducedPairs ==
  {p \in (1..63) \X {2, 4, 8, 16, 32, 64} : p[1] <= p[2] - 1 /\ Coprime(p[1], p[2])}

PairOf(f) == <<BigToNat(f.num), BigToNat(f.den)>>

\* the text "n/d"
PairText(p) == BigToDecimal(BigOfNat(p[1])) \o <<"/">> \o BigToDecimal(BigOfNat(p[2]))

\* C7: when a row of the fraction table has been selected, the fraction
\* taken from it is the n/d of one of ReducedPairs, and COMMON_FRACTIONS, the
\* table's rows, holds exactly these n/d, numerator and denominator as they
\* are in the pair (lowest terms), none negative, in strictly ascending order
\* of value (so each once).
C7_CommonFractions ==
  handler = "_on_frac_row_select" =>
    /\ \E p \in ReducedPairs : fraction_var = PairText(p)
    /\ {PairOf(COMMON_FRACTIONS[i]) : i \in 1..Len(COMMON_FRACTIONS)} = ReducedPairs
    /\ \A i \in 1..Len(COMMON_FRACTIONS) : ~COMMON_FRACTIONS[i].neg
    /\ \A i \in 1..(Len(COMMON_FRACTIONS) - 1) :
         PairOf(COMMON_FRACTIONS[i])[1] * PairOf(COMMON_FRACTIONS[i + 1])[2]
           < PairOf(COMMON_FRACTIONS[i + 1])[1] * PairOf(COMMON_FRACTIONS[i])[2]

C7_Witness ==
  /\ handler = "_on_frac_row_select"
  /\ fraction_var = <<"1", "/", "6", "4">>
  /\ frac_result_var = <<"0", ".", "0", "1", "5", "6", "2", "5">>

\* C8 as stated: when a row of the fraction table has been selected, it is
\* one of 96 rows: COMMON_FRACTIONS has 96 entries and each reference table
\* 96 rows.
C8_NinetySixEntries ==
  handler = "_on_frac_row_select" =>
    /\ \E i \in 1..96 : fraction_var = FracRows[i][1]
    /\ Len(COMMON_FRACTIONS) = 96
    /\ Len(FracRows) = 96
    /\ Len(InchesRows) = 96
    /\ Len(MmRows) = 96

\* C8 amended: when a row of the fraction table has been selected, it is
\* one of 63 rows: COMMON_FRACTIONS has 63 entries and each reference table
\* 63 rows.
C8_SixtyThreeEntries ==
  handler = "_on_frac_row_select" =>
    /\ \E i \in 1..63 : fraction_var = FracRows[i][1]
    /\ Len(COMMON_FRACTIONS) = 63
    /\ Len(FracRows) = 63
    /\ Len(InchesRows) = 63
    /\ Len(MmRows) = 63

C8_Witness ==
  /\ handler = "_on_frac_row_select"
  /\ fraction_var = FracRows[Len(FracRows)][1]
  /\ fraction_var = <<"6", "3", "/", "6", "4">>
  /\ frac_result_var = <<"0", ".", "9", "8", "4", "3", "7", "5">>

\* characters a number, a fraction or a mixed number is written with
NumericCharacters == DigitSet \cup {"+", "-", ".", "/", "e", "E", "_"}

\* an inch text that is empty or blank, has more than two tokens, or has a
\* token with a character that is no part of a number, with more than one
\* slash, with nothing or something other than an integer before its slash or
\* other than digits after it, or with a zero denominator
MalformedInches(t) ==
  \/ Len(split(t)) = 0
  \/ Len(split(t)) > 2
  \/ \E k \in 1..Len(split(t)) :
       LET token == split(t)[k]
       IN  \/ \E i \in 1..Len(token) : token[i] \notin NumericCharacters
           \/ Cardinality(SlashesOf(token)) > 1
           \/ /\ Cardinality(SlashesOf(token)) = 1
              /\ ~IsSlashForm(token)

\* t without the blanks before and after it
Trimmed(t) ==
  LET inked == {i \in 1..Len(t) : t[i] # " "}
  IN  IF inked = {} THEN <<>> ELSE SubSeq(t, MinOf(inked), MaxOf(inked))

\* C9: a malformed inch text gets the parse error (message set, result the
\* placeholder, no exception), and the outcome of a text with blanks around
\* it is the outcome of the text without them.
C9_InchesParseErrors ==
  AfterInchesConversion =>
    /\ MalformedInches(inches_var) => InchesParseErrorShown
    /\ LET bare == inches_converted(Trimmed(inches_var))
       IN  /\ inches_error_var = bare.error
           /\ raised = bare.raised
           /\ bare.result # <<>> => mm_result_var = bare.result

C9_Witness ==
  /\ handler = "_convert_inches"
  /\ inches_var = <<" ", "3", "/", "0", " ">>
  /\ MalformedInches(inches_var)
  /\ InchesParseErrorShown

\* plain decimal notation: an optional sign, digits, at most one point
IsPlainDecimal(s) ==
  LET u == Unsigned(s)
      points == {i \in 1..Len(u) : u[i] = "."}
  IN  /\ \A i \in 1..Len(u) : IsDigit(u[i]) \/ u[i] = "."
      /\ \E i \in 1..Len(u) : IsDigit(u[i])
      /\ Cardinality(points) <= 1

\* C10: a millimeter text that is not in plain decimal notation gets the
\* NotNumeric error and no result.
C10_PlainDecimalOnly ==
  (AfterMmConversion /\ ~IsPlainDecimal(strip(mm_input_var))) =>
    /\ mm_error_var = "Enter a numeric value in millimeters."
    /\ mm_to_in_result_var = Placeholder
    /\ mm_to_in_frac_var = Placeholder

\* the fraction nearest to the decimal-inch value, as _convert_mm computes it
NearestFraction == limit_denominator(Fraction_of_float(DecimalInches), 64)

\* C11: when the decimal-inch value x lies exactly midway between two
\* neighbouring candidates lo/64 and (lo + 1)/64, that is 128 x = 2 lo + 1,
\* the fraction shown is the one of the two with the smaller denominator:
\* the one whose numerator is even.
C11_TieToSmallerDenominator ==
  (AfterMmConversion /\ mm_error_var = "" /\ raised = "") =>
    LET x == Fraction_of_float(DecimalInches)
        lo == BigDivMod(BigMul(x.num, <<64>>), x.den)[1]
        even == IF BigIsOdd(lo) THEN BigAdd(lo, <<1>>) ELSE lo
    IN  BigMul(x.num, <<128>>) = BigMul(BigAdd(BigAdd(lo, lo), <<1>>), x.den)
          => mm_to_in_frac_var = frac_str(Frac(FALSE, even, <<64>>))

\* n/d in lowest terms with 0 < n < d
IsProperFractionText(s) ==
  /\ Cardinality(SlashesOf(s)) = 1
  /\ AllDigits(BeforeSlash(s))
  /\ AllDigits(AfterSlash(s))
  /\ DecimalToBig(BeforeSlash(s)) # <<>>
  /\ BigLess(DecimalToBig(BeforeSlash(s)), DecimalToBig(AfterSlash(s)))
  /\ BigGcd(DecimalToBig(BeforeSlash(s)), DecimalToBig(AfterSlash(s))) = <<1>>

\* the Fraction whole + n/d
MixedValue(whole, s) ==
  int_plus_Fraction([neg |-> FALSE, mag |-> whole],
                    Frac(FALSE, DecimalToBig(BeforeSlash(s)), DecimalToBig(AfterSlash(s))))

SameValue(f, g) == f.num = g.num /\ f.den = g.den

ExactInches ==
  LET parts == split(strip(inches_var))
  IN  IF Len(parts) = 2
      THEN int_plus_Fraction(int_of_str(parts[1]), Fraction_of_str(parts[2]))
      ELSE Fraction_of_str(strip(inches_var))

\* C13: after a successful inches-to-millimeters conversion the result field
\* holds r * 127/5 for the exact rational r of the entry, rounded once to 4
\* fractional digits: a decimal with 4 digits after the point that differs
\* from r * 127/5 by at most 1/20000.
C13_ExactProduct ==
  (AfterInchesConversion /\ inches_error_var = "" /\ raised = "") =>
    LET r == ExactInches
        shown == ParseDecimal(Unsigned(mm_result_var))
    IN  /\ Len(mm_result_var) > 5
        /\ mm_result_var[Len(mm_result_var) - 4] = "."
        /\ shown.ok
        /\ BigLeq(BigMul(BigOfNat(20000),
                         BigAbsDiff(BigMul(BigMul(shown.num, <<5>>), r.den),
                                    BigMul(BigMul(r.num, <<127>>), shown.den))),
                  BigMul(BigMul(<<5>>, r.den), shown.den))

\* the (fraction, decimal inches, millimeters) triple of every entry
Triples ==
  Limbs([i \in 1..Len(COMMON_FRACTIONS) |->
           <<str_of_Fraction(COMMON_FRACTIONS[i]),
             format_f(float_of_Fraction(COMMON_FRACTIONS[i]).val, 6),
             format_f(float_mul(float_of_Fraction(COMMON_FRACTIONS[i]).val, MM_PER_INCH), 4)>>],
        Len(COMMON_FRACTIONS))

\* the entries of COMMON_FRACTIONS stand in ascending order
Ascending ==
  \A i \in 1..(Len(COMMON_FRACTIONS) - 1) :
    BigLess(BigMul(COMMON_FRACTIONS[i].num, COMMON_FRACTIONS[i + 1].den),
            BigMul(COMMON_FRACTIONS[i + 1].num, COMMON_FRACTIONS[i].den))

\* each view has one row per entry, in ascending order; the inches view holds
\* the triples and the millimeter view holds them in the opposite column order
OneRowPerEntry ==
  /\ Ascending
  /\ Len(FracRows) = Len(COMMON_FRACTIONS)
  /\ Len(InchesRows) = Len(COMMON_FRACTIONS)
  /\ Len(MmRows) = Len(COMMON_FRACTIONS)
  /\ \A i \in 1..Len(COMMON_FRACTIONS) :
       /\ InchesRows[i] = Triples[i]
       /\ MmRows[i] = <<Triples[i][3], Triples[i][2], Triples[i][1]>>

\* every row of the fraction view holds the three columns of its triple
FractionViewOfTriples ==
  \A i \in 1..Len(COMMON_FRACTIONS) :
    /\ Len(FracRows[i]) = 3
    /\ {FracRows[i][k] : k \in 1..3} = {Triples[i][k] : k \in 1..3}

\* every row of the fraction view holds the fraction and the decimal inches
FractionViewOfPairs ==
  \A i \in 1..Len(COMMON_FRACTIONS) : FracRows[i] = <<Triples[i][1], Triples[i][2]>>

\* a row of the fraction table has been selected
FractionRowSelected == handler = "_on_frac_row_select"

FractionParsesToZero ==
  /\ Fraction_of_str(strip(fraction_var)).exc = ""
  /\ Fraction_of_str(strip(fraction_var)).num = <<>>

\* the inches entry's text is a number, or a whole number and a fraction,
\* equal to zero
InchesParsesToZero ==
  LET parts == split(strip(inches_var))
  IN  IF Len(parts) = 1
      THEN Fraction_of_str(parts[1]).exc = "" /\ Fraction_of_str(parts[1]).num = <<>>
      ELSE /\ Len(parts) = 2
           /\ int_of_str(parts[1]).exc = ""
           /\ Fraction_of_str(parts[2]).exc = ""
           /\ int_plus_Fraction(int_of_str(parts[1]), Fraction_of_str(parts[2])).num = <<>>

\* the millimeter entry's text is a float equal to zero
MmParsesToZero ==
  /\ float_of_str(strip(mm_input_var)).exc = ""
  /\ float_of_str(strip(mm_input_var)).val.cls = "finite"
  /\ float_of_str(strip(mm_input_var)).val.m = <<>>

\* C16: an entry that parses to exactly zero is converted and not rejected:
\* the fraction tab shows 0.000000, the inches tab shows 0.0000, and the
\* millimeter tab shows 0.000000 with the nearest fraction 0.
C16_ZeroAccepted ==
  /\ (AfterFractionConversion /\ FractionParsesToZero) =>
       /\ frac_error_var = ""
       /\ raised = ""
       /\ frac_result_var = <<"0", ".", "0", "0", "0", "0", "0", "0">>
  /\ (AfterInchesConversion /\ InchesParsesToZero) =>
       /\ inches_error_var = ""
       /\ raised = ""
       /\ mm_result_var = <<"0", ".", "0", "0", "0", "0">>
  /\ (AfterMmConversion /\ MmParsesToZero) =>
       /\ mm_error_var = ""
       /\ raised = ""
       /\ mm_to_in_result_var = <<"0", ".", "0", "0", "0", "0", "0", "0">>
       /\ mm_to_in_frac_var = <<"0">>

\* a row of the millimeter table has been selected
MmRowSelected == handler = "_on_mm_row_select"

\* the rows of the millimeter table whose first column is the entry's text
SelectedMmRows == {i \in 1..Len(MmRows) : MmRows[i][1] = mm_input_var}

\* C17: after a row of the millimeter table is selected, the conversion of
\* the row's millimeter text has succeeded and the nearest fraction shown is
\* the row's fraction column.
C17_RowFraction ==
  MmRowSelected =>
    /\ SelectedMmRows # {}
    /\ mm_error_var = ""
    /\ raised = ""
    /\ \A i \in SelectedMmRows : mm_to_in_frac_var = MmRows[i][3]

\* the row of 63/64 (25.0031 mm) is selected
C17_Witness ==
  /\ MmRowSelected
  /\ mm_input_var = <<"2", "5", ".", "0", "0", "3", "1">>
  /\ mm_to_in_frac_var = <<"6", "3", "/", "6", "4">>
  /\ MmRows[63][1] = mm_input_var

\* a row of the inches table has been selected
InchesRowSelected == handler = "_on_inches_row_select"

\* the rows of the inches table whose decimal column is the entry's text
SelectedInchesRows == {i \in 1..Len(InchesRows) : InchesRows[i][2] = inches_var}

\* C18: after a row is selected the result shown is the text of the row's
\* own column: in the millimeter table the decimal inches shown are the
\* row's decimal column, in the inches table the millimeters shown are the
\* row's millimeter column.
C18_RowDecimal ==
  /\ MmRowSelected =>
       /\ SelectedMmRows # {}
       /\ \A i \in SelectedMmRows : mm_to_in_result_var = MmRows[i][2]
  /\ InchesRowSelected =>
       /\ SelectedInchesRows # {}
       /\ \A i \in SelectedInchesRows : mm_result_var = InchesRows[i][3]

\* the outcome class of a conversion that left this error message: a parse
\* (not numeric) error, a negative error, or a value
OutcomeClass(error) ==
  CASE error = "" -> "value"
    [] error = "Value must be positive." -> "negative"
    [] OTHER -> "parse"

\* both front ends build the same list and the same rows
SameTables ==
  /\ android_COMMON_FRACTIONS = COMMON_FRACTIONS
  /\ _FRAC_ROWS = FracRows
  /\ _INCHES_ROWS = InchesRows
  /\ _MM_ROWS = MmRows

\* what the desktop shows agrees with the Android outcome a: the same class,
\* the same exception if one left the callback, and the same text in every
\* field that the Android callback writes
SameOutcome(a, error, result) ==
  /\ OutcomeClass(a.error) = OutcomeClass(error)
  /\ a.raised = raised
  /\ a.result # <<>> => a.result = result

\* C15: whatever text a tab's entry holds, the desktop callback and the
\* Android tab's _convert end in the same outcome class and, on success, show
\* the same result strings; and the two front ends hold the same
\* COMMON_FRACTIONS and the same rows in their reference tables.
C15_FrontEndsAgree ==
  /\ AfterFractionConversion =>
       /\ SameTables
       /\ SameOutcome(FractionTab_convert(fraction_var), frac_error_var, frac_result_var)
  /\ AfterInchesConversion =>
       /\ SameTables
       /\ SameOutcome(InchesMMTab_convert(inches_var), inches_error_var, mm_result_var)
  /\ AfterMmConversion =>
       /\ SameTables
       /\ SameOutcome(MMInchesTab_convert(mm_input_var), mm_error_var, mm_to_in_result_var)
       /\ MMInchesTab_convert(mm_input_var).frac # <<>>
            => MMInchesTab_convert(mm_input_var).frac = mm_to_in_frac_var

\* 1 3/8 in is converted in the inches tab: both front ends show 34.9250
C15_Witness ==
  /\ handler = "_convert_inches"
  /\ inches_var = <<"1", " ", "3", "/", "8">>
  /\ mm_result_var = <<"3", "4", ".", "9", "2", "5", "0">>
  /\ InchesMMTab_convert(inches_var).result = mm_result_var
  /\ InchesMMTab_convert(inches_var).error = inches_error_var

\* at most one tray icon runs
AtMostOneLive == Cardinality(live) <= 1

\* a step that makes a tray icon is taken with the setting on
MadeOnlyWhenOn == [][live' \subseteq live \/ minimize_to_tray]_vars

\* the thread of some icon is in _restore
Restoring ==
  \E i \in Icons : menu_callback[i].item = "Restore" /\ menu_callback[i].pc \notin {"idle", "raised"}

\* C19: under every interleaving of the main loop's <Unmap> handling with
\* the Restore and Quit callbacks of the icons' threads, at most one tray
\* icon runs at any time, no icon is made while the minimise-to-tray setting
\* is off, and every Restore is eventually followed by the window shown.
C19_TrayInterleavings ==
  /\ []AtMostOneLive
  /\ MadeOnlyWhenOn
  /\ Restoring ~> (window = "normal")

\* the two safety parts alone, and the liveness part alone
TraySafety == []AtMostOneLive /\ MadeOnlyWhenOn
RestoreShowsWindow == Restoring ~> (window = "normal")
====
